---- MODULE Spec2Model ----
(***************************************************************************)
(* Report generation orchestrator of the IT-trends Telegram bot:           *)
(*   services/report_service.py  ReportService (tool calls with retries,   *)
(*                               result unwrapping, analysis, generation,  *)
(*                               local fallback, record persistence)       *)
(*   services/mcp_client.py      MCPClient._request (HTTP retry loop)      *)
(*   database/repository.py      get_user_settings, save_report            *)
(*                                                                         *)
(* Python values are modelled by records of one fixed shape per Python     *)
(* type, so that TLC can compare any two of them: an absent key of a       *)
(* mapping and a falsy value ("" or None) are both the empty value of the   *)
(* field's type, which is how the code reads them (`key in d and d[key]`,   *)
(* `x or y`).                                                              *)
(***************************************************************************)
EXTENDS Integers, Sequences, FiniteSets, TLC

VARIABLES
    pc,         \* pc[c]: where create_report call c stands
    call,       \* call[c]: the locals of create_report call c
    fs,         \* the file system: existing path -> file content (a sequence)
    reports,    \* the reports table: sequence of Report rows, in commit order
    settings,   \* the user_settings table: user -> set of at most one row
    clock,      \* the wall clock, in whole seconds, as last read (line 233)
    probe,      \* one application of a function of the code: its inputs and its result
    sched,      \* the TrendsScheduler object and the timer engine it wraps
    units,      \* units[n]: a unit of work (a command, a callback or a fired job)
    main,       \* bot.py's main(): the statement it stands at, its scheduler calls
    limiter     \* the rate limiter of /analyze: _LAST_ANALYZE_AT, the time, the commands

vars == <<pc, call, fs, reports, settings, clock, probe, sched, units, main, limiter>>
orchVars == <<pc, call, fs, reports, settings, clock>>
botVars == <<sched, units, main, limiter>>

(***************************************************************************)
(* Bounds of the model.                                                    *)
(***************************************************************************)
MaxCalls == 2           \* create_report calls, all of which may overlap
MaxClock == 1           \* the clock runs over 0..MaxClock
MaxRetryAttempts == 3   \* MCPClient.retry_attempts ranges over 0..MaxRetryAttempts
MaxJobs == 2            \* jobs the timer engine is asked to add
MaxUnits == 1           \* units of work under way at a time
MaxCmds == 2            \* /analyze commands the rate limiter sees, which may overlap
MaxTicks == 3           \* times the wall clock of the rate limiter is moved on

(***************************************************************************)
(* Program constants.                                                      *)
(***************************************************************************)
ToolAttempts == 3       \* report_service.py:108  while attempt < 3
ToolDelay == 2          \* report_service.py:118  asyncio.sleep(2 * attempt)
RequestDelay == 5       \* mcp_client.py:13       retry_delay: int = 5
DefaultDays == 7        \* repository.py:89       analysis_days=7
AnalyzeCooldown == 600  \* commands.py:18         _ANALYZE_COOLDOWN_SECONDS = 600

Calls == 1..MaxCalls
Users == {1, 2}
StoragePath == "./reports"

(***************************************************************************)
(* Paths.  A path is a directory, a file stem and an extension; the stem   *)
(* report_{user}_{ts} is kept as its parts.  NoPath is the empty string.   *)
(***************************************************************************)
NoPath == [dir |-> "", prefix |-> "", user |-> 0, ts |-> 0, ext |-> ""]

ReportFileName(user_id, ts, ext) ==
    [dir |-> StoragePath, prefix |-> "report", user |-> user_id, ts |-> ts, ext |-> ext]

\* The paths the remote generator may answer with and write to: one laid
\* out like the local reports, one somewhere else under a name of its own.
RemotePaths ==
    << [dir |-> StoragePath, prefix |-> "report", user |-> 1, ts |-> 0, ext |-> "pdf"],
       [dir |-> "/tmp/mcp", prefix |-> "out", user |-> 0, ts |-> 0, ext |-> "docx"] >>

(***************************************************************************)
(* Python mappings (dict).  One record shape holds every key the code      *)
(* reads or writes; a key that is absent holds the empty value.            *)
(***************************************************************************)
DefaultSources == [reddit |-> TRUE, freelance |-> TRUE, trends |-> TRUE]

EmptyDict ==
    [date |-> "", top_trends |-> <<>>, growth_leaders |-> <<>>, sources |-> {},
     summary |-> "", file_path |-> NoPath, path |-> NoPath, filepath |-> NoPath,
     status |-> ""]

\* An analysis document as a remote analysis tool answers it.
RemoteDoc ==
    [EmptyDict EXCEPT !.date = "2024-05-01", !.top_trends = <<"Go", "Zig">>,
                      !.growth_leaders = <<"htmx">>, !.summary = "Remote analysis."]

\* A second one, which reaches the caller as JSON text.
RemoteDocB ==
    [EmptyDict EXCEPT !.top_trends = <<"Elixir">>, !.summary = "Remote analysis B."]

\* What the /health endpoint answers.
HealthDoc(status) == [EmptyDict EXCEPT !.status = status]

\* What a remote generator answers: the path under one of the accepted keys.
PathDict(key, p) ==
    CASE key = "file_path" -> [EmptyDict EXCEPT !.file_path = p]
      [] key = "path"      -> [EmptyDict EXCEPT !.path = p]
      [] key = "filepath"  -> [EmptyDict EXCEPT !.filepath = p]
      [] OTHER             -> EmptyDict

(***************************************************************************)
(* Python strings that reach the code as results: JSON text of a mapping,  *)
(* JSON text of something else (a list), a path written as text, or plain  *)
(* text that is neither.                                                   *)
(***************************************************************************)
NoStr == [form |-> "", dict |-> EmptyDict, path |-> NoPath]
PlainText == [form |-> "plain", dict |-> EmptyDict, path |-> NoPath]
JsonListText == [form |-> "json_list", dict |-> EmptyDict, path |-> NoPath]
PathText(p) == [form |-> "path", dict |-> EmptyDict, path |-> p]

\* json.dumps(d, ensure_ascii=False, indent=2) of a mapping d.
JsonDumps(d) == [form |-> "json_dict", dict |-> d, path |-> NoPath]

(***************************************************************************)
(* Python values a tool call can return.  kind is the Python type:         *)
(*   dict, str, list; envelope: an object with data / structured_content / *)
(*   content attributes (fastmcp's CallToolResult); other: anything else.  *)
(* The data attribute of an envelope is None, a dict, an object with       *)
(* model_dump(), an object with dict(), a plain object, or a str.          *)
(***************************************************************************)
NoData == [kind |-> "none", dict |-> EmptyDict, raises |-> FALSE, str |-> NoStr]
NoEnv == [data |-> NoData, structured |-> {}, content |-> <<>>]

Value(kind, d, s, e) == [kind |-> kind, dict |-> d, str |-> s, env |-> e]
DictValue(d) == Value("dict", d, NoStr, NoEnv)
StrValue(s) == Value("str", EmptyDict, s, NoEnv)
ListValue == Value("list", EmptyDict, NoStr, NoEnv)
OtherValue == Value("other", EmptyDict, NoStr, NoEnv)
NoneValue == Value("none", EmptyDict, NoStr, NoEnv)
EnvelopeValue(e) == Value("envelope", EmptyDict, NoStr, e)

\* A data attribute of kind k whose mapping (itself, or what its conversion
\* method returns) is d; raises: the conversion method raises.
Data(k, d, raises) == [kind |-> k, dict |-> d, raises |-> raises, str |-> NoStr]

\* json.loads(s): the parsed value, or "raise" as kind when s is not JSON.
JsonLoads(s) ==
    CASE s.form = "json_dict" -> DictValue(s.dict)
      [] s.form = "json_list" -> ListValue
      [] OTHER                -> Value("raise", EmptyDict, NoStr, NoEnv)

\* "\n".join(texts) of the text blocks of a content list (a block without
\* text is NoStr): one text is itself; several texts joined by newlines are,
\* for the texts of the model, neither JSON nor a path.
JoinTexts(content) ==
    LET texts == SelectSeq(content, LAMBDA b : b.form # "")
    IN  CASE texts = <<>>    -> NoStr
          [] Len(texts) = 1  -> texts[1]
          [] OTHER           -> PlainText

\* A normalizer that parses a string holding the JSON text of a mapping.
UnwrapToolResultParsing(result) ==
    IF result.kind = "str" /\ JsonLoads(result.str).kind = "dict"
    THEN JsonLoads(result.str)
    ELSE result

\* A normalizer without the try/except around the conversion of data: a
\* conversion method that raises is let out (kind "raise").
UnwrapToolResultUnguarded(result) ==
    IF result.kind = "envelope" /\ result.env.data.raises
    THEN Value("raise", EmptyDict, NoStr, NoEnv)
    ELSE IF result.kind = "envelope" /\ result.env.data.kind = "dict"
    THEN DictValue(result.env.data.dict)
    ELSE result

\* ReportService._unwrap_tool_result
UnwrapToolResult(result) ==
    IF result.kind \in {"dict", "str", "list"} THEN result
    ELSE IF result.kind = "envelope" THEN
        LET data == result.env.data
            structured == result.env.structured
            content == result.env.content
            combined == JoinTexts(content)
            parsed == JsonLoads(combined)
        IN  IF data.kind # "none" THEN
                CASE data.kind = "dict" -> DictValue(data.dict)
                  [] data.kind \in {"model_dump", "dict_method"} /\ ~data.raises ->
                        DictValue(data.dict)
                  [] data.kind = "str" -> StrValue(data.str)
                  [] OTHER -> OtherValue
            ELSE IF structured # {} THEN
                DictValue(CHOOSE d \in structured : TRUE)
            ELSE IF content # <<>> /\ combined # NoStr THEN
                IF parsed.kind # "raise" THEN parsed ELSE StrValue(combined)
            ELSE result
    ELSE result


(***************************************************************************)
(* The two retry loops.  An attempt's outcome is a returned value or a     *)
(* raised exception; the loop's state is its locals, how it ended          *)
(* (returned / raised) and the log of what it did, in order: each call of  *)
(* the remote side and each sleep, with its duration.                      *)
(***************************************************************************)
Errors == <<"TimeoutError", "ConnectionError", "ToolError">>

Ok(v) == [ok |-> TRUE, value |-> v, exc |-> ""]
Fail(e) == [ok |-> FALSE, value |-> NoneValue, exc |-> e]

CallEvent(n) == [ev |-> "call", n |-> n]
SleepEvent(d) == [ev |-> "sleep", n |-> d]

LoopStart ==
    [attempt |-> 0, last_exc |-> "", status |-> "running", result |-> NoneValue,
     log |-> <<>>]

\* After the while loop: `if last_exc: raise last_exc`, else the function
\* falls off its end and returns None.
LoopExit(st) ==
    IF st.last_exc # "" THEN [st EXCEPT !.status = "raised"]
    ELSE [st EXCEPT !.status = "returned", !.result = NoneValue]

\* One iteration of the loop of ReportService._call_tool_with_retries.
ToolAttempt(st, o) ==
    LET called == [st EXCEPT !.log = Append(@, CallEvent(st.attempt + 1))]
    IN  IF o.ok THEN [called EXCEPT !.status = "returned", !.result = o.value]
        ELSE LET a == st.attempt + 1
                 slept == [called EXCEPT !.last_exc = o.exc, !.attempt = a,
                                         !.log = Append(@, SleepEvent(ToolDelay * a))]
             IN  IF a < ToolAttempts THEN slept ELSE LoopExit(slept)

RECURSIVE ToolLoop(_, _)
ToolLoop(st, outcomes) ==
    IF st.status # "running" \/ outcomes = <<>> THEN st
    ELSE ToolLoop(ToolAttempt(st, Head(outcomes)), Tail(outcomes))

\* The loop as `while attempt < 3` first tests it.
ToolLoopStart == IF 0 < ToolAttempts THEN LoopStart ELSE LoopExit(LoopStart)

\* A tool call that, when its attempts are exhausted, starts the loop over
\* once with the same answers.
CallToolWithRetriesTwice(outcomes) ==
    LET first == ToolLoop(ToolLoopStart, outcomes)
    IN  IF first.status # "raised" THEN first
        ELSE ToolLoop([first EXCEPT !.status = "running", !.attempt = 0], outcomes)

\* ReportService._call_tool_with_retries, the remote side answering the
\* attempts with `outcomes` in turn.
CallToolWithRetries(outcomes) == ToolLoop(ToolLoopStart, outcomes)

\* An iteration that waits the base delay after every failure.
RequestAttemptFixedDelay(st, o, retry_attempts, retry_delay) ==
    LET called == [st EXCEPT !.log = Append(@, CallEvent(st.attempt + 1))]
    IN  IF o.ok THEN [called EXCEPT !.status = "returned", !.result = o.value]
        ELSE LET a == st.attempt + 1
                 failed == [called EXCEPT !.last_exc = o.exc, !.attempt = a]
             IN  IF a >= retry_attempts THEN LoopExit(failed)
                 ELSE [failed EXCEPT !.log = Append(@, SleepEvent(retry_delay))]

\* One iteration of the loop of MCPClient._request.
RequestAttempt(st, o, retry_attempts, retry_delay) ==
    LET called == [st EXCEPT !.log = Append(@, CallEvent(st.attempt + 1))]
    IN  IF o.ok THEN [called EXCEPT !.status = "returned", !.result = o.value]
        ELSE LET a == st.attempt + 1
                 failed == [called EXCEPT !.last_exc = o.exc, !.attempt = a]
             IN  IF a >= retry_attempts THEN LoopExit(failed)
                 ELSE [failed EXCEPT !.log = Append(@, SleepEvent(retry_delay * a))]

RECURSIVE RequestLoop(_, _, _, _)
RequestLoop(st, outcomes, retry_attempts, retry_delay) ==
    IF st.status # "running" \/ outcomes = <<>> THEN st
    ELSE RequestLoop(RequestAttempt(st, Head(outcomes), retry_attempts, retry_delay),
                     Tail(outcomes), retry_attempts, retry_delay)

\* The loop as `while attempt < self.retry_attempts` first tests it.
RequestLoopStart(retry_attempts) ==
    IF 0 < retry_attempts THEN LoopStart ELSE LoopExit(LoopStart)

\* MCPClient._request
Request(outcomes, retry_attempts, retry_delay) ==
    RequestLoop(RequestLoopStart(retry_attempts), outcomes, retry_attempts, retry_delay)

\* health_check not called, or not ended.
NoHealth == [ended |-> FALSE, raised |-> FALSE, value |-> FALSE]

\* A health_check that lets the error of its request out.
HealthCheckPropagating(st) ==
    IF st.status = "raised" THEN [ended |-> TRUE, raised |-> TRUE, value |-> FALSE]
    ELSE [ended |-> TRUE, raised |-> FALSE, value |-> TRUE]

\* MCPClient.health_check, its _request("GET", "/health") having ended as st.
HealthCheck(st) ==
    IF st.status = "raised" THEN [ended |-> TRUE, raised |-> FALSE, value |-> FALSE]
    ELSE IF st.result.kind = "dict"
    THEN [ended |-> TRUE, raised |-> FALSE, value |-> st.result.dict.status = "ok"]
    ELSE [ended |-> TRUE, raised |-> FALSE, value |-> TRUE]

(***************************************************************************)
(* Files.  A file's content is a head, a body (the JSON text it embeds)    *)
(* and a tail; its size is the number of parts that are not empty.         *)
(***************************************************************************)
EmptyFile == [head |-> "", body |-> NoStr, tail |-> ""]
RemoteFile == [head |-> "%PDF-1.4", body |-> NoStr, tail |-> ""]

Exists(files, p) == p \in DOMAIN files

\* os.path.getsize of an existing file
GetSize(files, p) ==
    LET f == files[p]
    IN  (IF f.head # "" THEN 1 ELSE 0) + (IF f.body # NoStr THEN 1 ELSE 0)
        + (IF f.tail # "" THEN 1 ELSE 0)

\* open(p, "w") and write: the file is created, or replaced when it exists.
WriteFile(files, p, content) ==
    [q \in DOMAIN files \cup {p} |-> IF q = p THEN content ELSE files[q]]

\* The remote generator writing its artifact before it answers: it makes a
\* new file and leaves the files that exist alone.  NoPath: it writes none.
RemoteWrite(files, w) ==
    IF w.path = NoPath \/ Exists(files, w.path) THEN files
    ELSE WriteFile(files, w.path, w.content)

(***************************************************************************)
(* The analysis step.                                                      *)
(***************************************************************************)
AnalyzeTools == <<"analyze_trends", "analyze", "trends_analyze">>
GenerateTools == <<"generate_report", "report_generate", "create_report">>

\* The analysis parameters create_report passes: every key is present.
NoRequest ==
    [days |-> 0, sources |-> {}, include_charts |-> FALSE, language |-> "", date |-> ""]

\* A stub that answers with the default sources whatever the caller asked.
StubWithDefaultSources(params) ==
    [EmptyDict EXCEPT
        !.date = "today",
        !.top_trends = <<"AI Agents", "Rust", "Kotlin Multiplatform">>,
        !.growth_leaders = <<"LangChain", "WebGPU", "Bun">>,
        !.sources = {DefaultSources},
        !.summary = "Stub analysis due to MCP server unavailability."]

\* The fallback stub of _analyze_trends (lines 151-157).
StubAnalysis(params) ==
    [EmptyDict EXCEPT
        !.date = IF params.date # "" THEN params.date ELSE "today",
        !.top_trends = <<"AI Agents", "Rust", "Kotlin Multiplatform">>,
        !.growth_leaders = <<"LangChain", "WebGPU", "Bun">>,
        !.sources = IF params.sources # {} THEN params.sources ELSE {DefaultSources},
        !.summary = "Stub analysis due to MCP server unavailability."]

\* A loop body without the try/except: a tool call that raises is let out.
AnalyzeCandidateUnguarded(st) ==
    [accepted |-> FALSE, raised |-> st.status = "raised", dict |-> EmptyDict]

\* The body of the for loop of _analyze_trends for one candidate whose tool
\* call ended as st: the candidate is accepted with a mapping, or skipped.
\* The try/except around the body lets nothing out (raised is FALSE).
AnalyzeCandidate(st) ==
    LET unwrapped == UnwrapToolResult(st.result)
        parsed == JsonLoads(unwrapped.str)
        skip == [accepted |-> FALSE, raised |-> FALSE, dict |-> EmptyDict]
    IN  CASE st.status = "raised" -> skip
          [] unwrapped.kind = "dict" ->
                [accepted |-> TRUE, raised |-> FALSE, dict |-> unwrapped.dict]
          [] unwrapped.kind = "str" /\ parsed.kind = "dict" ->
                [accepted |-> TRUE, raised |-> FALSE, dict |-> parsed.dict]
          [] OTHER -> skip

Tried(tool, st) == [tool |-> tool, log |-> st.log, status |-> st.status]

\* A loop that does not return at the first accepted candidate: it calls
\* every candidate and returns what the last accepted one answered.
RECURSIVE AnalyzeAll(_, _, _, _, _)
AnalyzeAll(i, params, calls, tried, best) ==
    IF i > Len(AnalyzeTools) THEN [best EXCEPT !.tried = tried]
    ELSE
        LET st == calls[i]
            r == AnalyzeCandidate(st)
            t == Append(tried, Tried(AnalyzeTools[i], st))
        IN  AnalyzeAll(i + 1, params, calls, t,
                       IF r.accepted
                       THEN [data |-> r.dict, raised |-> FALSE, stub |-> FALSE, tried |-> t]
                       ELSE best)

AnalyzeFromKeepGoing(i, params, calls, tried) ==
    AnalyzeAll(i, params, calls, tried,
               [data |-> StubAnalysis(params), raised |-> FALSE, stub |-> TRUE,
                tried |-> tried])

RECURSIVE AnalyzeFrom(_, _, _, _)
AnalyzeFrom(i, params, calls, tried) ==
    IF i > Len(AnalyzeTools) THEN
        [data |-> StubAnalysis(params), raised |-> FALSE, stub |-> TRUE, tried |-> tried]
    ELSE
        LET st == calls[i]
            r == AnalyzeCandidate(st)
            t == Append(tried, Tried(AnalyzeTools[i], st))
        IN  IF r.raised THEN
                [data |-> EmptyDict, raised |-> TRUE, stub |-> FALSE, tried |-> t]
            ELSE IF r.accepted THEN
                [data |-> r.dict, raised |-> FALSE, stub |-> FALSE, tried |-> t]
            ELSE AnalyzeFrom(i + 1, params, calls, t)

\* ReportService._analyze_trends: calls[i] is how _call_tool_with_retries
\* ends for candidate i, should the loop come to it.
AnalyzeTrends(params, calls) == AnalyzeFrom(1, params, calls, <<>>)

(***************************************************************************)
(* The generation step.                                                    *)
(***************************************************************************)
\* for key in ("file_path", "path", "filepath"): the first that is truthy
ExtractPath(d) ==
    CASE d.file_path # NoPath -> d.file_path
      [] d.path # NoPath      -> d.path
      [] d.filepath # NoPath  -> d.filepath
      [] OTHER                -> NoPath

\* Lines 171-191: the candidate path read from an unwrapped result.
CandidatePath(files, unwrapped) ==
    LET parsed == JsonLoads(unwrapped.str)
    IN  CASE unwrapped.kind = "dict" -> ExtractPath(unwrapped.dict)
          [] unwrapped.kind = "str" ->
                IF unwrapped.str.form = "path" /\ Exists(files, unwrapped.str.path)
                THEN unwrapped.str.path
                ELSE IF parsed.kind = "dict" THEN ExtractPath(parsed.dict)
                ELSE NoPath
          [] OTHER -> NoPath

\* An acceptance that does not look at the size of the file.
AcceptsExisting(files, p) == p # NoPath /\ Exists(files, p)

\* An acceptance that takes any named path without looking at the file.
AcceptsUnchecked(files, p) == p # NoPath

\* Lines 192-201: a candidate path is accepted when stat succeeds on it and
\* its size is positive.
Accepts(files, p) == p # NoPath /\ Exists(files, p) /\ GetSize(files, p) > 0

\* The body of the for loop of _generate_report for one candidate whose
\* tool call ended as st, the files being `files` when it returned.
GenerateCandidate(files, st) ==
    LET cand == IF st.status = "raised" THEN NoPath
                ELSE CandidatePath(files, UnwrapToolResult(st.result))
    IN  IF Accepts(files, cand) THEN cand ELSE NoPath

RECURSIVE GenerateFrom(_, _, _, _)
GenerateFrom(i, files, outs, tried) ==
    IF i > Len(GenerateTools) THEN [path |-> NoPath, files |-> files, tried |-> tried]
    ELSE
        LET files1 == RemoteWrite(files, outs[i].write)
            st == outs[i].call
            got == GenerateCandidate(files1, st)
            t == Append(tried, Tried(GenerateTools[i], st))
        IN  IF got # NoPath THEN [path |-> got, files |-> files1, tried |-> t]
            ELSE GenerateFrom(i + 1, files1, outs, t)

\* ReportService._generate_report: outs[i] is what happens for candidate i,
\* should the loop come to it: the file the remote side writes and how
\* _call_tool_with_retries ends.
GenerateReport(files, outs) == GenerateFrom(1, files, outs, <<>>)

(***************************************************************************)
(* create_report: settings, target format, request, local fallback.        *)
(***************************************************************************)
Get(opt, default) == IF opt = {} THEN default ELSE CHOOSE x \in opt : TRUE

\* repository.get_user_settings creates this row when the user has none.
DefaultSettings ==
    [report_format |-> "pdf", analysis_days |-> DefaultDays,
     sources |-> [reddit |-> {TRUE}, freelance |-> {TRUE}, trends |-> {TRUE}],
     include_charts |-> TRUE, language |-> "en"]

\* repository.get_user_settings: the row read, and the table after it.
GetUserSettings(table, user_id) ==
    IF table[user_id] = {} THEN
        [row |-> DefaultSettings, table |-> [table EXCEPT ![user_id] = {DefaultSettings}]]
    ELSE [row |-> CHOOSE r \in table[user_id] : TRUE, table |-> table]

\* fmt = params.get("format") or settings.report_format or "pdf"
TargetFormat(params, row) ==
    IF params.format # "" THEN params.format
    ELSE IF row.report_format # "" THEN row.report_format
    ELSE "pdf"

\* A request built from the stored settings alone.
BuildRequestFromSettings(params, row) ==
    [days |-> row.analysis_days,
     sources |-> {[reddit |-> Get(row.sources.reddit, TRUE),
                   freelance |-> Get(row.sources.freelance, TRUE),
                   trends |-> Get(row.sources.trends, TRUE)]},
     include_charts |-> row.include_charts,
     language |-> row.language,
     date |-> ""]

\* Lines 212-222: the parameters passed to _analyze_trends.
BuildRequest(params, row) ==
    [days |-> Get(params.days, row.analysis_days),
     sources |-> IF params.sources # {} THEN params.sources
                 ELSE {[reddit |-> Get(row.sources.reddit, TRUE),
                        freelance |-> Get(row.sources.freelance, TRUE),
                        trends |-> Get(row.sources.trends, TRUE)]},
     include_charts |-> Get(params.include_charts, row.include_charts),
     language |-> Get(params.language, row.language),
     date |-> ""]

\* str.lower() on the format names that reach it
Lower(s) ==
    CASE s = "HTML"  -> "html"
      [] s = "PDF"   -> "pdf"
      [] s = "Excel" -> "excel"
      [] OTHER       -> s

\* A fallback that keeps the extension asked for.
FallbackExtAsRequested(fmt) == Lower(IF fmt # "" THEN fmt ELSE "pdf")

\* Lines 229-230
FallbackExt(fmt) ==
    LET requested_fmt == Lower(IF fmt # "" THEN fmt ELSE "pdf")
    IN  IF requested_fmt = "html" THEN "html" ELSE "txt"

\* A fallback file name without the user in it.
FallbackPathUnscoped(user_id, ts, fallback_ext) == ReportFileName(0, ts, fallback_ext)

\* Line 233-234, the clock reading ts
FallbackPath(user_id, ts, fallback_ext) == ReportFileName(user_id, ts, fallback_ext)

\* Lines 236-241: what is written to the fallback file
FallbackContent(fallback_ext, data) ==
    IF fallback_ext = "html" THEN
        [head |-> "<html><body><h1>IT Trends Report</h1><pre>",
         body |-> JsonDumps(data), tail |-> "</pre></body></html>"]
    ELSE [head |-> "IT Trends Report\n\n", body |-> JsonDumps(data), tail |-> ""]

\* repository.save_report: the row added to the reports table.  `by` is not
\* a column: it names the create_report call that saved the row.
ReportRow(table, user_id, channel_id, file_path, fmt, data_json, status, by) ==
    [id |-> Len(table) + 1, user_id |-> user_id, channel_id |-> channel_id,
     file_path |-> file_path, format |-> fmt, data_json |-> data_json,
     status |-> status, by |-> by]

(***************************************************************************)
(* Inputs of the orchestrator: callers' params and what the remote side    *)
(* does.  A params mapping holds format ("" when absent) and the optional  *)
(* keys as sets of at most one value.                                      *)
(***************************************************************************)
NoParams ==
    [format |-> "", days |-> {}, sources |-> {}, include_charts |-> {}, language |-> {}]

\* {"days": 7} (the scheduler) ; --format html ; --format excel --days 1
ParamsChoices ==
    << [NoParams EXCEPT !.days = {7}],
       [NoParams EXCEPT !.format = "html"],
       [NoParams EXCEPT !.format = "xlsx", !.days = {1}] >>

\* The settings row user 2 has stored; user 1 has none.
StoredSettings ==
    [report_format |-> "HTML", analysis_days |-> 30,
     sources |-> [reddit |-> {FALSE}, freelance |-> {TRUE}, trends |-> {}],
     include_charts |-> FALSE, language |-> "ru"]

AllFail == <<Fail(Errors[1]), Fail(Errors[2]), Fail(Errors[3])>>

\* How the tool call of an analysis candidate can end, by what the remote
\* side answers its attempts with.
AnalyzeCalls ==
    << CallToolWithRetries(AllFail),
       CallToolWithRetries(<<Ok(DictValue(RemoteDoc))>>),
       CallToolWithRetries(<<Fail(Errors[1]), Fail(Errors[2]),
                             Ok(StrValue(JsonDumps(RemoteDocB)))>>),
       CallToolWithRetries(<<Fail(Errors[3]), Ok(StrValue(PlainText))>>) >>

NoWrite == [path |-> NoPath, content |-> EmptyFile]

\* What the remote side does for a generation candidate: every call fails;
\* it writes the file and answers its path (in a mapping, or as text); it
\* writes an empty file; it answers a path it did not write.
GenerateOutcomes ==
    << [call |-> CallToolWithRetries(AllFail), write |-> NoWrite],
       [call |-> CallToolWithRetries(
                     <<Ok(DictValue(PathDict("file_path", RemotePaths[1])))>>),
        write |-> [path |-> RemotePaths[1], content |-> RemoteFile]],
       [call |-> CallToolWithRetries(
                     <<Fail(Errors[1]), Ok(StrValue(PathText(RemotePaths[2])))>>),
        write |-> [path |-> RemotePaths[2], content |-> RemoteFile]],
       [call |-> CallToolWithRetries(
                     <<Ok(DictValue(PathDict("path", RemotePaths[1])))>>),
        write |-> [path |-> RemotePaths[1], content |-> EmptyFile]],
       [call |-> CallToolWithRetries(
                     <<Ok(DictValue(PathDict("filepath", RemotePaths[2])))>>),
        write |-> NoWrite] >>

(***************************************************************************)
(* The scheduler object and units of work, as they are when the process    *)
(* has built them.                                                         *)
(***************************************************************************)
JobIds == 1..MaxJobs
Units == 1..MaxUnits

\* What the last call of a scheduler method was and did.  engine: the
\* start or shutdown call made on the timer engine ("" when none was made);
\* wait: the wait argument of that shutdown; id: the identifier passed or
\* returned; after_pause: the user whose pause_all came just before, or 0.
NoOp ==
    [op |-> "", user |-> 0, id |-> 0, engine |-> "", wait |-> FALSE, raised |-> FALSE,
     after_pause |-> 0]

\* TrendsScheduler.__init__: a stopped engine without jobs, an empty index.
NewScheduler ==
    [running |-> FALSE,
     jobs |-> [i \in {} |-> 0],
     issued |-> 0,
     jobs_by_user |-> [u \in Users |-> <<>>],
     last |-> NoOp]

\* A notice, a call or a raise in a unit of work, in the order they happen.
Event(ev, arg) == [ev |-> ev, arg |-> arg, days |-> 0]

NoChannel == [channel_id |-> "", channel_username |-> ""]

\* main() before its first statement.  starts and shutdowns count its calls
\* of trends_scheduler.start() and trends_scheduler.shutdown().
NotStarted == [at |-> "setup", starts |-> 0, shutdowns |-> 0, exc |-> ""]

NoUnit ==
    [kind |-> "", user |-> 0, chat |-> 0, job |-> 0, at |-> "", ch |-> NoChannel,
     ext |-> "", events |-> <<>>, propagated |-> FALSE]

(***************************************************************************)
(* The orchestrator: MaxCalls calls of create_report, which may overlap.   *)
(* A call is suspended where the code awaits: reading the settings, the    *)
(* analysis, the generation, saving the record.  The analysis and the      *)
(* generation touch no state the calls share but the files, which the      *)
(* generation stats, so each is one step.                                  *)
(*   artifact: "" / "remote" / "local", how the call's file came to be     *)
(*   exc: which step raised out of create_report                           *)
(*   saves: the number of save_report calls made                           *)
(***************************************************************************)
IdleCall ==
    [user |-> 0, params |-> NoParams, fmt0 |-> "", fmt |-> "", request |-> NoRequest,
     data |-> EmptyDict, target_path |-> NoPath, artifact |-> "", exc |-> "",
     saves |-> 0]

NoAnalysis == [data |-> EmptyDict, raised |-> FALSE, stub |-> FALSE, tried |-> <<>>]
NoFiles == [p \in {} |-> EmptyFile]
NoGenerated == [path |-> NoPath, files |-> NoFiles, tried |-> <<>>]

\* No publish_to_channel call made.
NoPublished == [calls |-> <<>>, raised |-> FALSE]

\* fn: the function applied ("" before any is); the other fields are its
\* inputs and its result.
NoProbe ==
    [fn |-> "", loop |-> LoopStart, outcomes |-> <<>>, retry_attempts |-> 0,
     request |-> NoRequest, calls |-> <<>>, analysis |-> NoAnalysis,
     files |-> NoFiles, outs |-> <<>>, generated |-> NoGenerated,
     ext |-> "", sends |-> FALSE, published |-> NoPublished,
     value |-> NoneValue, unwrapped |-> NoneValue, health |-> NoHealth,
     params |-> NoParams, row |-> DefaultSettings, fmt |-> ""]

Cmds == 1..MaxCmds

\* commands.py lines 16-18 when the module is loaded: _LAST_ANALYZE_AT is
\* empty, which .get(user, 0) on line 102 reads as 0 for every user.  now is
\* time.time(): it is far more than the cooldown after 0.  cmds[k] is
\* /analyze command k: its user and the place its handler stands at; starts
\* lists the create_report calls the handlers made, with user and time.
NewLimiter ==
    [last_analyze_at |-> [u \in Users |-> 0],
     now |-> AnalyzeCooldown,
     ticks |-> 0,
     cmds |-> [k \in Cmds |-> [user |-> 0, at |-> ""]],
     starts |-> <<>>]

Init ==
    /\ pc = [c \in Calls |-> "idle"]
    /\ call = [c \in Calls |-> IdleCall]
    /\ fs = NoFiles
    /\ reports = <<>>
    /\ settings = [u \in Users |-> IF u = 2 THEN {StoredSettings} ELSE {}]
    /\ clock = 0
    /\ probe = NoProbe
    /\ sched = NewScheduler
    /\ units = [n \in Units |-> NoUnit]
    /\ main = NotStarted
    /\ limiter = NewLimiter

\* What is left of a call's locals once it has raised.
Raised(locals, user_id, exc) ==
    [IdleCall EXCEPT !.user = user_id, !.exc = exc, !.artifact = locals.artifact,
                     !.saves = locals.saves]

\* What the analysis can come to, over all the remote side may do.
AnalyzeResults(request) ==
    { LET r == AnalyzeTrends(request,
                   <<AnalyzeCalls[i1], AnalyzeCalls[i2], AnalyzeCalls[i3]>>)
      IN  [data |-> r.data, raised |-> r.raised] :
        i1 \in 1..Len(AnalyzeCalls), i2 \in 1..Len(AnalyzeCalls),
        i3 \in 1..Len(AnalyzeCalls) }

\* What the generation can come to, over all the remote side may do.
GenerateResults(files) ==
    { LET r == GenerateReport(files,
                   <<GenerateOutcomes[o1], GenerateOutcomes[o2], GenerateOutcomes[o3]>>)
      IN  [path |-> r.path, files |-> r.files] :
        o1 \in 1..Len(GenerateOutcomes), o2 \in 1..Len(GenerateOutcomes),
        o3 \in 1..Len(GenerateOutcomes) }

\* Calls are started in the order of their numbers.
CanBegin(c) == pc[c] = "idle" /\ (IF c = 1 THEN TRUE ELSE pc[c - 1] # "idle")

\* Lines 209-210 and 212-222: the settings are read, the target format and
\* the request are fixed.
Begin(c, user_id, params) ==
    /\ CanBegin(c)
    /\ LET got == GetUserSettings(settings, user_id)
       IN  /\ settings' = got.table
           /\ call' = [call EXCEPT ![c] =
                  [IdleCall EXCEPT !.user = user_id, !.params = params,
                                   !.fmt0 = TargetFormat(params, got.row),
                                   !.fmt = TargetFormat(params, got.row),
                                   !.request = BuildRequest(params, got.row)]]
    /\ pc' = [pc EXCEPT ![c] = "analyze"]
    /\ UNCHANGED <<fs, reports, clock, probe, botVars>>

\* get_user_settings raises (the database fails): create_report raises.
BeginFails(c, user_id, params) ==
    /\ CanBegin(c)
    /\ call' = [call EXCEPT ![c] = Raised(IdleCall, user_id, "settings")]
    /\ pc' = [pc EXCEPT ![c] = "raised"]
    /\ UNCHANGED <<fs, reports, settings, clock, probe, botVars>>

\* Line 211: data = await self._analyze_trends(...)
Analyze(c) ==
    /\ pc[c] = "analyze"
    /\ \E r \in AnalyzeResults(call[c].request) :
          IF r.raised THEN
              /\ call' = [call EXCEPT ![c] = Raised(call[c], call[c].user, "remote")]
              /\ pc' = [pc EXCEPT ![c] = "raised"]
          ELSE
              /\ call' = [call EXCEPT ![c].data = r.data]
              /\ pc' = [pc EXCEPT ![c] = "generate"]
    /\ UNCHANGED <<fs, reports, settings, clock, probe, botVars>>

\* A generation step after which the fallback is entered whatever the
\* step yielded.
GenerateThenFallback(c) ==
    /\ pc[c] = "generate"
    /\ \E r \in GenerateResults(fs) :
          /\ fs' = r.files
          /\ call' = IF r.path # NoPath
                     THEN [call EXCEPT ![c].target_path = r.path,
                                       ![c].artifact = "remote"]
                     ELSE call
    /\ pc' = [pc EXCEPT ![c] = "fallback"]
    /\ UNCHANGED <<reports, settings, clock, probe, botVars>>

\* Lines 226-227: target_path = await self._generate_report(data, fmt)
Generate(c) ==
    /\ pc[c] = "generate"
    /\ \E r \in GenerateResults(fs) :
          /\ fs' = r.files
          /\ IF r.path # NoPath THEN
                 /\ call' = [call EXCEPT ![c].target_path = r.path,
                                         ![c].artifact = "remote"]
                 /\ pc' = [pc EXCEPT ![c] = "save"]
             ELSE
                 /\ call' = call
                 /\ pc' = [pc EXCEPT ![c] = "fallback"]
    /\ UNCHANGED <<reports, settings, clock, probe, botVars>>

\* Lines 228-248: the local fallback file is written; fmt becomes its
\* extension.  The clock is read: it stands where it stood or further.
Fallback(c) ==
    /\ pc[c] = "fallback"
    /\ \E now \in clock..MaxClock :
          LET fallback_ext == FallbackExt(call[c].fmt)
              target_path == FallbackPath(call[c].user, now, fallback_ext)
          IN  /\ clock' = now
              /\ fs' = WriteFile(fs, target_path,
                                 FallbackContent(fallback_ext, call[c].data))
              /\ call' = [call EXCEPT ![c].target_path = target_path,
                                      ![c].fmt = fallback_ext,
                                      ![c].artifact = "local"]
    /\ pc' = [pc EXCEPT ![c] = "save"]
    /\ UNCHANGED <<reports, settings, probe, botVars>>

\* Lines 244-246: writing the fallback file raises, before the file is
\* opened (the files are as they were) or after open(path, "w") has
\* created or truncated it (json.dumps or the write raises).
FallbackFails(c) ==
    /\ pc[c] = "fallback"
    /\ \E now \in clock..MaxClock, opened \in BOOLEAN :
          LET fallback_ext == FallbackExt(call[c].fmt)
              target_path == FallbackPath(call[c].user, now, fallback_ext)
          IN  /\ clock' = now
              /\ fs' = IF opened THEN WriteFile(fs, target_path, EmptyFile) ELSE fs
    /\ call' = [call EXCEPT ![c] = Raised(call[c], call[c].user, "write")]
    /\ pc' = [pc EXCEPT ![c] = "raised"]
    /\ UNCHANGED <<reports, settings, probe, botVars>>

\* A save that writes over the newest row of the table when there is one.
SaveOverNewest(c) ==
    /\ pc[c] = "save"
    /\ LET row == ReportRow(reports, call[c].user, 0, call[c].target_path, call[c].fmt,
                            call[c].data, "completed", c)
       IN  reports' = IF reports = <<>> THEN <<row>>
                      ELSE [reports EXCEPT ![Len(reports)] = row]
    /\ call' = [call EXCEPT ![c].saves = @ + 1]
    /\ pc' = [pc EXCEPT ![c] = "returned"]
    /\ UNCHANGED <<fs, settings, clock, probe, botVars>>

\* Lines 249-255: the record is saved and (path, data) returned.
Save(c) ==
    /\ pc[c] = "save"
    /\ reports' = Append(reports,
           ReportRow(reports, call[c].user, 0, call[c].target_path, call[c].fmt,
                     call[c].data, "completed", c))
    /\ call' = [call EXCEPT ![c].saves = @ + 1]
    /\ pc' = [pc EXCEPT ![c] = "returned"]
    /\ UNCHANGED <<fs, settings, clock, probe, botVars>>

\* A failed save that removes the artifact before re-raising.
SaveFailsRemovingFile(c) ==
    /\ pc[c] = "save"
    /\ fs' = [p \in DOMAIN fs \ {call[c].target_path} |-> fs[p]]
    /\ call' = [call EXCEPT ![c] =
           Raised([call[c] EXCEPT !.saves = @ + 1], call[c].user, "save")]
    /\ pc' = [pc EXCEPT ![c] = "raised"]
    /\ UNCHANGED <<reports, settings, clock, probe, botVars>>

\* Lines 252-254: save_report raises and create_report re-raises.
SaveFails(c) ==
    /\ pc[c] = "save"
    /\ call' = [call EXCEPT ![c] =
           Raised([call[c] EXCEPT !.saves = @ + 1], call[c].user, "save")]
    /\ pc' = [pc EXCEPT ![c] = "raised"]
    /\ UNCHANGED <<fs, reports, settings, clock, probe, botVars>>

Next ==
    \/ \E c \in Calls, u \in Users, i \in 1..Len(ParamsChoices) :
          Begin(c, u, ParamsChoices[i])
    \/ \E c \in Calls, u \in Users, i \in 1..Len(ParamsChoices) :
          BeginFails(c, u, ParamsChoices[i])
    \/ \E c \in Calls : Analyze(c)
    \/ \E c \in Calls : Generate(c)
    \/ \E c \in Calls : Fallback(c)
    \/ \E c \in Calls : FallbackFails(c)
    \/ \E c \in Calls : Save(c)
    \/ \E c \in Calls : SaveFails(c)

Spec == Init /\ [][Next]_vars

\* The steps of call c that follow its start.
Proceed(c) ==
    \/ Analyze(c) \/ Generate(c) \/ Fallback(c) \/ FallbackFails(c)
    \/ Save(c) \/ SaveFails(c)

\* One create_report call on its own.  A call waits for no other call, and
\* create_report awaits its steps in turn: when every remote call and every
\* persistence call returns or fails, the event loop resumes the coroutine
\* and the next step is taken.
NextLive ==
    \/ \E u \in Users, i \in 1..Len(ParamsChoices) : Begin(1, u, ParamsChoices[i])
    \/ \E u \in Users, i \in 1..Len(ParamsChoices) : BeginFails(1, u, ParamsChoices[i])
    \/ Analyze(1)
    \/ Generate(1)
    \/ Fallback(1)
    \/ FallbackFails(1)
    \/ Save(1)
    \/ SaveFails(1)

SpecLive == Init /\ [][NextLive]_vars /\ WF_vars(Proceed(1))

(***************************************************************************)
(* The functions of the gateway and of the orchestrator on their own, over *)
(* every input of the sets below: the retry loops attempt by attempt, the  *)
(* analysis and the generation step as wholes.                             *)
(***************************************************************************)
\* Results a tool call can come back with, in every shape the normalizer
\* tells apart.
ResultShapes ==
    << DictValue(RemoteDoc),
       StrValue(JsonDumps(RemoteDocB)),
       StrValue(PlainText),
       StrValue(JsonListText),
       ListValue,
       OtherValue,
       EnvelopeValue([NoEnv EXCEPT !.data = Data("dict", RemoteDoc, FALSE)]),
       EnvelopeValue([NoEnv EXCEPT !.data = Data("model_dump", RemoteDocB, TRUE),
                                   !.structured = {RemoteDoc}]),
       EnvelopeValue([NoEnv EXCEPT !.structured = {RemoteDocB}]),
       EnvelopeValue([NoEnv EXCEPT !.content = <<NoStr, JsonDumps(RemoteDoc)>>]),
       EnvelopeValue([NoEnv EXCEPT !.content = <<PlainText>>]) >>

\* What an attempt can come to: a result, or one of the errors.
AttemptOutcomes ==
    << Ok(DictValue(RemoteDoc)), Ok(StrValue(PlainText)), Ok(ListValue),
       Fail(Errors[1]), Fail(Errors[2]), Fail(Errors[3]) >>

CallToolStart ==
    /\ probe.fn = ""
    /\ probe' = [NoProbe EXCEPT !.fn = "call_tool", !.retry_attempts = ToolAttempts,
                                !.loop = ToolLoopStart]
    /\ UNCHANGED <<orchVars, botVars>>

CallToolStep ==
    /\ probe.fn = "call_tool"
    /\ probe.loop.status = "running"
    /\ \E i \in 1..Len(AttemptOutcomes) :
          probe' = [probe EXCEPT !.loop = ToolAttempt(@, AttemptOutcomes[i]),
                                 !.outcomes = Append(@, AttemptOutcomes[i])]
    /\ UNCHANGED <<orchVars, botVars>>

RequestStart ==
    /\ probe.fn = ""
    /\ \E n \in 0..MaxRetryAttempts :
          probe' = [NoProbe EXCEPT !.fn = "request", !.retry_attempts = n,
                                   !.loop = RequestLoopStart(n)]
    /\ UNCHANGED <<orchVars, botVars>>

RequestStep ==
    /\ probe.fn = "request"
    /\ probe.loop.status = "running"
    /\ \E i \in 1..Len(AttemptOutcomes) :
          probe' = [probe EXCEPT
                       !.loop = RequestAttempt(@, AttemptOutcomes[i],
                                               probe.retry_attempts, RequestDelay),
                       !.outcomes = Append(@, AttemptOutcomes[i])]
    /\ UNCHANGED <<orchVars, botVars>>

\* How a candidate's tool call can end: with each result shape at once, with
\* a result after failures, or raising after the last attempt.
ToolCallEnds ==
    [i \in 1..Len(ResultShapes) |-> CallToolWithRetries(<<Ok(ResultShapes[i])>>)]
    \o << CallToolWithRetries(AllFail),
          CallToolWithRetries(<<Fail(Errors[2]), Ok(DictValue(RemoteDocB))>>) >>

\* The requests of a user without stored settings and of user 2, and one
\* whose caller names the sources.
RequestChoices ==
    << BuildRequest(NoParams, DefaultSettings),
       BuildRequest(ParamsChoices[1], StoredSettings),
       BuildRequest([NoParams EXCEPT !.sources =
                        {[reddit |-> FALSE, freelance |-> FALSE, trends |-> TRUE]}],
                    DefaultSettings) >>

AnalyzeTrendsApply ==
    /\ probe.fn = ""
    /\ \E q \in 1..Len(RequestChoices), i1, i2, i3 \in 1..Len(ToolCallEnds) :
          LET calls == <<ToolCallEnds[i1], ToolCallEnds[i2], ToolCallEnds[i3]>>
          IN  probe' = [NoProbe EXCEPT !.fn = "analyze_trends",
                                       !.request = RequestChoices[q],
                                       !.calls = calls,
                                       !.analysis = AnalyzeTrends(RequestChoices[q], calls)]
    /\ UNCHANGED <<orchVars, botVars>>

\* What can happen for a generation candidate.  names: the path the remote
\* side answers with, NoPath when it answers with none.
Outcome(st, w, names) == [call |-> st, write |-> w, names |-> names]
FullAt(p) == [path |-> p, content |-> RemoteFile]
EmptyAt(p) == [path |-> p, content |-> EmptyFile]

GenerateChoices ==
    << Outcome(CallToolWithRetries(AllFail), FullAt(RemotePaths[1]), NoPath),
       Outcome(CallToolWithRetries(<<Ok(ListValue)>>), NoWrite, NoPath),
       Outcome(CallToolWithRetries(<<Ok(DictValue(PathDict("file_path", RemotePaths[1])))>>),
               FullAt(RemotePaths[1]), RemotePaths[1]),
       Outcome(CallToolWithRetries(<<Fail(Errors[1]),
                                     Ok(DictValue(PathDict("path", RemotePaths[2])))>>),
               FullAt(RemotePaths[2]), RemotePaths[2]),
       Outcome(CallToolWithRetries(<<Ok(DictValue(PathDict("filepath", RemotePaths[1])))>>),
               EmptyAt(RemotePaths[1]), RemotePaths[1]),
       Outcome(CallToolWithRetries(<<Ok(StrValue(PathText(RemotePaths[2])))>>),
               NoWrite, RemotePaths[2]),
       Outcome(CallToolWithRetries(
                   <<Ok(StrValue(JsonDumps(PathDict("path", RemotePaths[2]))))>>),
               FullAt(RemotePaths[2]), RemotePaths[2]),
       Outcome(CallToolWithRetries(<<Ok(EnvelopeValue(
                   [NoEnv EXCEPT !.structured = {PathDict("file_path", RemotePaths[1])}]))>>),
               NoWrite, RemotePaths[1]) >>

\* The files before the generation step: none, or one left by an earlier call.
FilesChoices ==
    << NoFiles,
       WriteFile(NoFiles, RemotePaths[2], RemoteFile),
       WriteFile(NoFiles, RemotePaths[1], EmptyFile) >>

GenerateReportApply ==
    /\ probe.fn = ""
    /\ \E f \in 1..Len(FilesChoices), o1, o2, o3 \in 1..Len(GenerateChoices) :
          LET outs == <<GenerateChoices[o1], GenerateChoices[o2], GenerateChoices[o3]>>
          IN  probe' = [NoProbe EXCEPT !.fn = "generate_report",
                                       !.files = FilesChoices[f],
                                       !.outs = outs,
                                       !.generated = GenerateReport(FilesChoices[f], outs)]
    /\ UNCHANGED <<orchVars, botVars>>

\* The extensions publish_to_channel sends as documents (line 264).
DocumentExts == {"pdf", "doc", "docx", "xlsx", "xls", "html", "htm", "txt"}

\* A publish that tries the transport once more after a failure.
PublishRetrying(ext, sends) ==
    LET sent == IF Lower(ext) \in DocumentExts THEN Event("send_document", "caption")
                ELSE Event("send_message", "caption")
    IN  [calls |-> IF sends THEN <<sent>> ELSE <<sent, sent>>, raised |-> ~sends]

\* ReportService.publish_to_channel for a path of extension ext, the
\* transport call succeeding (sends) or raising.
PublishToChannel(ext, sends) ==
    LET sent == IF Lower(ext) \in DocumentExts THEN Event("send_document", "caption")
                ELSE Event("send_message", "caption")
    IN  [calls |-> <<sent>>, raised |-> ~sends]

\* The extensions of the paths publish_to_channel is applied to here.
PublishExts == {"pdf", "PDF", "docx", "xls", "html", "txt", "json", "md", ""}

PublishApply ==
    /\ probe.fn = ""
    /\ \E ext \in PublishExts, sends \in BOOLEAN :
          probe' = [NoProbe EXCEPT !.fn = "publish_to_channel",
                                   !.ext = ext,
                                   !.sends = sends,
                                   !.published = PublishToChannel(ext, sends)]
    /\ UNCHANGED <<orchVars, botVars>>

\* Every shape the normalizer can be given: those above, and envelopes
\* whose data is an object with a dict() that raises, a plain object or a
\* string, whose content has no text block, and with nothing set.
UnwrapShapes ==
    ResultShapes \o
    << NoneValue,
       EnvelopeValue([NoEnv EXCEPT !.data = Data("model_dump", RemoteDoc, FALSE)]),
       EnvelopeValue([NoEnv EXCEPT !.data = Data("dict_method", RemoteDoc, TRUE)]),
       EnvelopeValue([NoEnv EXCEPT !.data = Data("plain", RemoteDoc, FALSE)]),
       EnvelopeValue([NoEnv EXCEPT !.data =
                         [Data("str", EmptyDict, FALSE) EXCEPT !.str = PlainText]]),
       EnvelopeValue([NoEnv EXCEPT !.content = <<NoStr, NoStr>>]),
       EnvelopeValue([NoEnv EXCEPT !.content = <<PlainText, JsonDumps(RemoteDoc)>>]),
       EnvelopeValue([NoEnv EXCEPT !.content = <<JsonListText>>]),
       EnvelopeValue(NoEnv) >>

UnwrapApply ==
    /\ probe.fn \in {"", "unwrap"}
    /\ \E i \in 1..Len(UnwrapShapes) :
          probe' = [NoProbe EXCEPT !.fn = "unwrap",
                                   !.value = IF probe.fn = "" THEN UnwrapShapes[i]
                                             ELSE probe.unwrapped,
                                   !.unwrapped = UnwrapToolResult(
                                        IF probe.fn = "" THEN UnwrapShapes[i]
                                        ELSE probe.unwrapped)]
    /\ UNCHANGED <<orchVars, botVars>>

\* What a request to /health can come to: a JSON body with status ok or
\* another status or none, a JSON list, a body that is not JSON (text); a
\* connection error, a timeout, an HTTP error status.
HealthOutcomes ==
    << Ok(DictValue(HealthDoc("ok"))), Ok(DictValue(HealthDoc("degraded"))),
       Ok(DictValue(EmptyDict)), Ok(ListValue), Ok(StrValue(PlainText)),
       Fail("ConnectionError"), Fail("TimeoutError"), Fail("ClientResponseError") >>

\* health_check as far as its request has come: ended with the request.
HealthOf(st) == IF st.status = "running" THEN NoHealth ELSE HealthCheck(st)

HealthCheckStart ==
    /\ probe.fn = ""
    /\ \E n \in 0..MaxRetryAttempts :
          probe' = [NoProbe EXCEPT !.fn = "health_check", !.retry_attempts = n,
                                   !.loop = RequestLoopStart(n),
                                   !.health = HealthOf(RequestLoopStart(n))]
    /\ UNCHANGED <<orchVars, botVars>>

HealthCheckStep ==
    /\ probe.fn = "health_check"
    /\ probe.loop.status = "running"
    /\ \E i \in 1..Len(HealthOutcomes) :
          LET st == RequestAttempt(probe.loop, HealthOutcomes[i],
                                   probe.retry_attempts, RequestDelay)
          IN  probe' = [probe EXCEPT !.loop = st,
                                     !.outcomes = Append(@, HealthOutcomes[i]),
                                     !.health = HealthOf(st)]
    /\ UNCHANGED <<orchVars, botVars>>

\* Callers' params for the request: none; each key overridden alone; all.
OverrideChoices ==
    << NoParams,
       [NoParams EXCEPT !.days = {1}],
       [NoParams EXCEPT !.sources =
           {[reddit |-> TRUE, freelance |-> FALSE, trends |-> FALSE]}],
       [NoParams EXCEPT !.include_charts = {TRUE}],
       [NoParams EXCEPT !.include_charts = {FALSE}],
       [NoParams EXCEPT !.language = {"de"}],
       [NoParams EXCEPT !.format = "xlsx"],
       [format |-> "html", days |-> {14},
        sources |-> {[reddit |-> FALSE, freelance |-> FALSE, trends |-> FALSE]},
        include_charts |-> {TRUE}, language |-> {"es"}] >>

\* Settings rows: the default one, that of user 2, one without a format.
RowChoices ==
    << DefaultSettings, StoredSettings, [StoredSettings EXCEPT !.report_format = ""] >>

\* create_report lines 210-222 for the settings row read.
BuildRequestApply ==
    /\ probe.fn = ""
    /\ \E i \in 1..Len(OverrideChoices), j \in 1..Len(RowChoices) :
          probe' = [NoProbe EXCEPT !.fn = "build_request",
                                   !.params = OverrideChoices[i],
                                   !.row = RowChoices[j],
                                   !.fmt = TargetFormat(OverrideChoices[i], RowChoices[j]),
                                   !.request = BuildRequest(OverrideChoices[i],
                                                            RowChoices[j])]
    /\ UNCHANGED <<orchVars, botVars>>

NextFn ==
    \/ BuildRequestApply
    \/ HealthCheckStart
    \/ HealthCheckStep
    \/ UnwrapApply
    \/ PublishApply
    \/ CallToolStart
    \/ CallToolStep
    \/ RequestStart
    \/ RequestStep
    \/ AnalyzeTrendsApply
    \/ GenerateReportApply

SpecFn == Init /\ [][NextFn]_vars

(***************************************************************************)
(* The scheduler.  Its methods are synchronous: each call is one step.     *)
(* The timer engine keeps the registered jobs under the identifiers it     *)
(* issues; its remove, pause and resume raise for an identifier it does    *)
(* not hold.                                                               *)
(***************************************************************************)
\* The chat a user's scheduled notices go to.
ChatOf(user_id) == 100 + user_id

\* The days a schedule can name.
DaysChoices == << <<"daily">>, <<"weekdays">> >>

\* TrendsScheduler._cron_from_time_days, for the time "09:00"
CronFromTimeDays(days) ==
    [hour |-> 9, minute |-> 0,
     day_of_week |-> IF Len(days) = 1 /\ days[1] = "daily" THEN "*"
                     ELSE IF Len(days) = 1 /\ days[1] = "weekdays" THEN "mon-fri"
                     ELSE "mon"]

Registered(jobs, id) == id \in DOMAIN jobs

\* scheduler.add_job(..., replace_existing=False): a job under a fresh id
EngineAddJob(jobs, id, user_id, chat_id, trigger) ==
    [i \in DOMAIN jobs \cup {id} |->
        IF i = id THEN [user_id |-> user_id, chat_id |-> chat_id, trigger |-> trigger,
                        paused |-> FALSE]
        ELSE jobs[i]]

\* scheduler.remove_job(job_id)
EngineRemoveJob(jobs, id) ==
    IF Registered(jobs, id)
    THEN [jobs |-> [i \in DOMAIN jobs \ {id} |-> jobs[i]], raised |-> FALSE]
    ELSE [jobs |-> jobs, raised |-> TRUE]

\* scheduler.pause_job(job_id) (paused = TRUE), scheduler.resume_job(job_id)
EngineSetPaused(jobs, id, paused) ==
    IF Registered(jobs, id)
    THEN [jobs |-> [jobs EXCEPT ![id].paused = paused], raised |-> FALSE]
    ELSE [jobs |-> jobs, raised |-> TRUE]

\* A loop over the ids that ends at the first job the engine raises for.
RECURSIVE ForEachJobUntilError(_, _, _)
ForEachJobUntilError(jobs, ids, paused) ==
    IF ids = <<>> THEN jobs
    ELSE LET r == EngineSetPaused(jobs, Head(ids), paused)
         IN  IF r.raised THEN jobs ELSE ForEachJobUntilError(r.jobs, Tail(ids), paused)

\* The loops of pause_all and resume_all: try the engine call for each id
\* in turn; except Exception: pass.
RECURSIVE ForEachJob(_, _, _)
ForEachJob(jobs, ids, paused) ==
    IF ids = <<>> THEN jobs
    ELSE LET r == EngineSetPaused(jobs, Head(ids), paused)
         IN  ForEachJob(r.jobs, Tail(ids), paused)

Done(op, user_id, id) ==
    [NoOp EXCEPT !.op = op, !.user = user_id, !.id = id]

\* The scheduler s after start(): the engine is started if it does not run.
Started(s) ==
    IF ~s.running
    THEN [s EXCEPT !.running = TRUE,
                   !.last = [Done("start", 0, 0) EXCEPT !.engine = "start"]]
    ELSE [s EXCEPT !.last = Done("start", 0, 0)]

\* The scheduler s after shutdown(): the engine, if it runs, is stopped with
\* wait=False.  Whether the engine's job store keeps its jobs over a
\* shutdown is the engine's matter (kept).
Stopped(s, kept) ==
    IF s.running
    THEN [s EXCEPT !.running = FALSE,
                   !.jobs = IF kept THEN @ ELSE [i \in {} |-> 0],
                   !.last = [Done("shutdown", 0, 0) EXCEPT !.engine = "shutdown",
                                                            !.wait = FALSE]]
    ELSE [s EXCEPT !.last = Done("shutdown", 0, 0)]

\* A start that calls the engine whether it runs or not.
StartUnguarded ==
    /\ sched' = [sched EXCEPT !.running = TRUE,
                              !.last = [Done("start", 0, 0) EXCEPT !.engine = "start"]]
    /\ UNCHANGED <<orchVars, probe, units, main, limiter>>

\* TrendsScheduler.start
Start ==
    /\ sched' = Started(sched)
    /\ UNCHANGED <<orchVars, probe, units, main, limiter>>

\* TrendsScheduler.shutdown
Shutdown ==
    /\ \E kept \in BOOLEAN : sched' = Stopped(sched, kept)
    /\ UNCHANGED <<orchVars, probe, units, main, limiter>>

\* An add_job that lets the engine replace the user's job of the same chat
\* and trigger.
AddJobReplacing(user_id, chat_id, days) ==
    /\ sched.issued < MaxJobs
    /\ LET trigger == CronFromTimeDays(days)
           same == {i \in DOMAIN sched.jobs :
                       /\ sched.jobs[i].user_id = user_id
                       /\ sched.jobs[i].chat_id = chat_id
                       /\ sched.jobs[i].trigger = trigger}
           id == IF same # {} THEN CHOOSE i \in same : TRUE ELSE sched.issued + 1
       IN  sched' = [sched EXCEPT
                        !.jobs = EngineAddJob(@, id, user_id, chat_id, trigger),
                        !.issued = @ + 1,
                        !.jobs_by_user[user_id] = Append(@, id),
                        !.last = Done("add_job", user_id, id)]
    /\ UNCHANGED <<orchVars, probe, units, main, limiter>>

\* TrendsScheduler.add_job: the engine issues an identifier not used before.
AddJob(user_id, chat_id, days) ==
    /\ sched.issued < MaxJobs
    /\ LET trigger == CronFromTimeDays(days)
           id == sched.issued + 1
       IN  sched' = [sched EXCEPT
                        !.jobs = EngineAddJob(@, id, user_id, chat_id, trigger),
                        !.issued = id,
                        !.jobs_by_user[user_id] = Append(@, id),
                        !.last = Done("add_job", user_id, id)]
    /\ UNCHANGED <<orchVars, probe, units, main, limiter>>

\* A remove_job without its try/except.
RemoveJobUnguarded(job_id) ==
    /\ LET r == EngineRemoveJob(sched.jobs, job_id)
       IN  sched' = [sched EXCEPT !.jobs = r.jobs,
                        !.last = [Done("remove_job", 0, job_id) EXCEPT !.raised = r.raised]]
    /\ UNCHANGED <<orchVars, probe, units, main, limiter>>

\* TrendsScheduler.remove_job: what the engine raises is logged, not raised.
RemoveJob(job_id) ==
    /\ LET r == EngineRemoveJob(sched.jobs, job_id)
       IN  sched' = [sched EXCEPT !.jobs = r.jobs,
                                  !.last = Done("remove_job", 0, job_id)]
    /\ UNCHANGED <<orchVars, probe, units, main, limiter>>

\* TrendsScheduler.pause_all
PauseAll(user_id) ==
    /\ sched' = [sched EXCEPT
                    !.jobs = ForEachJob(@, sched.jobs_by_user[user_id], TRUE),
                    !.last = Done("pause_all", user_id, 0)]
    /\ UNCHANGED <<orchVars, probe, units, main, limiter>>

\* A resume_all that resumes nothing.
ResumeAllIdle(user_id) ==
    /\ sched' = [sched EXCEPT
                    !.last = [Done("resume_all", user_id, 0) EXCEPT
                                 !.after_pause = IF sched.last.op = "pause_all"
                                                 THEN sched.last.user ELSE 0]]
    /\ UNCHANGED <<orchVars, probe, units, main, limiter>>

\* TrendsScheduler.resume_all
ResumeAll(user_id) ==
    /\ sched' = [sched EXCEPT
                    !.jobs = ForEachJob(@, sched.jobs_by_user[user_id], FALSE),
                    !.last = [Done("resume_all", user_id, 0) EXCEPT
                                 !.after_pause = IF sched.last.op = "pause_all"
                                                 THEN sched.last.user ELSE 0]]
    /\ UNCHANGED <<orchVars, probe, units, main, limiter>>

(***************************************************************************)
(* Units of work: a fired job (execute_scheduled_analysis), the /analyze   *)
(* command (cmd_analyze) and the run_analysis callback (on_run_analysis).  *)
(* A unit stands at the statement it awaits next (at) and keeps the        *)
(* events it has caused, in order.  Every awaited call returns or raises.  *)
(* create_report is one step here: it returns the extension of the path    *)
(* of its artifact, its record saved, or it raises.                        *)
(*   firing:   started, create_report, lookup, skip | publish, confirm;    *)
(*             failure_notice                                              *)
(*   analyze:  rate_limit, lookup, need_channel | progress, create_report, *)
(*             progress_report, publish, progress_done, confirm;           *)
(*             error_edit, error_answer                                    *)
(*   callback: cb_answer, lookup, need_channel | starting, create_report,  *)
(*             publish, confirm; error_answer                              *)
(***************************************************************************)
\* The channels table: user 2 has set a channel, user 1 has none.
Channels ==
    [u \in Users |->
        IF u = 2 THEN {[channel_id |-> "-1001", channel_username |-> "@trends"]}
        ELSE {}]

\* A lookup that is not scoped to the user: the first channel of any user.
GetActiveChannelOfAnyone(user_id) ==
    LET all == UNION {Channels[u] : u \in Users}
    IN  IF all = {} THEN NoChannel ELSE CHOOSE ch \in all : TRUE

\* repository.get_active_channel
GetActiveChannel(user_id) ==
    IF Channels[user_id] = {} THEN NoChannel ELSE CHOOSE ch \in Channels[user_id] : TRUE

\* The days each entry path passes to create_report.
DaysOf(kind) ==
    CASE kind = "firing"   -> 7
      [] kind = "callback" -> 1
      [] OTHER             -> 0

\* The text each notice statement sends.
NoticeAt(kind, at) ==
    CASE at = "started"        -> "started"
      [] at = "skip"           -> "no_channel_skip"
      [] at = "confirm"        -> "published"
      [] at = "failure_notice" -> "failed"
      [] at = "need_channel"   -> "set_channel_first"
      [] at = "cb_answer"      -> ""
      [] at = "starting"       -> "starting"
      [] at = "error_edit"     -> "error"
      [] at = "error_answer"   -> IF kind = "analyze" THEN "try_later" ELSE "error"
      [] OTHER                 -> at

\* The extensions of the paths create_report returns here.
PathExts == {"txt", "json"}

\* A job that goes on to publish whatever the lookup returned.
OnReturnAlwaysPublish(kind, at, ch) ==
    CASE at = "started"       -> "create_report"
      [] at = "create_report" -> "lookup"
      [] at = "lookup"        -> "publish"
      [] at = "publish"       -> "confirm"
      [] OTHER                -> "done"

\* The statement after `at` when the statement at `at` has returned.
OnReturn(kind, at, ch) ==
    CASE at = "started"         -> "create_report"
      [] at = "rate_limit"      -> "lookup"
      [] at = "cb_answer"       -> "lookup"
      [] at = "lookup" ->
            IF kind = "firing" THEN (IF ch = NoChannel THEN "skip" ELSE "publish")
            ELSE IF ch = NoChannel THEN "need_channel"
            ELSE IF kind = "analyze" THEN "progress" ELSE "starting"
      [] at = "progress"        -> "create_report"
      [] at = "starting"        -> "create_report"
      [] at = "create_report" ->
            IF kind = "firing" THEN "lookup"
            ELSE IF kind = "analyze" THEN "progress_report" ELSE "publish"
      [] at = "progress_report" -> "publish"
      [] at = "publish"         -> IF kind = "analyze" THEN "progress_done" ELSE "confirm"
      [] at = "progress_done"   -> "confirm"
      [] at = "error_edit"      -> "error_answer"
      [] OTHER                  -> "done"

\* The statements inside the try block of each handler.
InTry(kind, at) ==
    CASE kind = "firing" ->
            at \in {"started", "create_report", "lookup", "skip", "publish", "confirm"}
      [] kind = "analyze" ->
            at \in {"create_report", "progress_report", "publish", "progress_done",
                    "confirm"}
      [] OTHER -> at \in {"create_report", "publish", "confirm"}

\* The statement control goes to when the statement at `at` has raised.
OnRaise(kind, at) ==
    IF InTry(kind, at)
    THEN CASE kind = "firing"  -> "failure_notice"
           [] kind = "analyze" -> "error_edit"
           [] OTHER            -> "error_answer"
    ELSE "done"

\* Whether the handler ends by raising to what called it: a raise outside
\* its try blocks, and the bare raise that ends cmd_analyze's except block.
Propagates(kind, at, raised) ==
    IF raised
    THEN ~InTry(kind, at) /\ ~(kind = "firing" /\ at = "failure_notice")
    ELSE kind = "analyze" /\ at = "error_answer"

\* A failure notice of the job that lets its own failure out.
StatementRaisedUnguarded(u, at_events) ==
    [u EXCEPT !.events = at_events \o <<Event("raised", u.at)>>,
              !.at = OnRaise(u.kind, u.at),
              !.propagated = ~InTry(u.kind, u.at)]

\* The unit after its statement returned, having caused the events given.
StatementReturned(u, at_events, ch) ==
    [u EXCEPT !.events = at_events,
              !.at = OnReturn(u.kind, u.at, ch),
              !.ch = ch,
              !.propagated = Propagates(u.kind, u.at, FALSE)]

\* The unit after its statement raised.
StatementRaised(u, at_events) ==
    [u EXCEPT !.events = at_events \o <<Event("raised", u.at)>>,
              !.at = OnRaise(u.kind, u.at),
              !.propagated = Propagates(u.kind, u.at, TRUE)]

Idle(n) == units[n].at \in {"", "done"}

NewUnit(kind, user_id, chat_id, job_id, at) ==
    [NoUnit EXCEPT !.kind = kind, !.user = user_id, !.chat = chat_id, !.job = job_id,
                   !.at = at]

\* The timer engine fires a job that is registered and not paused.
FireStart(n, job_id) ==
    /\ Idle(n)
    /\ sched.running
    /\ Registered(sched.jobs, job_id)
    /\ ~sched.jobs[job_id].paused
    /\ units' = [units EXCEPT ![n] =
          NewUnit("firing", sched.jobs[job_id].user_id, sched.jobs[job_id].chat_id,
                  job_id, "started")]
    /\ UNCHANGED <<orchVars, probe, sched, main, limiter>>

\* A user sends /analyze.
CmdAnalyze(n, user_id) ==
    /\ Idle(n)
    /\ units' = [units EXCEPT ![n] = NewUnit("analyze", user_id, user_id, 0, "rate_limit")]
    /\ UNCHANGED <<orchVars, probe, sched, main, limiter>>

\* A user presses the run_analysis button.
OnRunAnalysis(n, user_id) ==
    /\ Idle(n)
    /\ units' = [units EXCEPT ![n] = NewUnit("callback", user_id, user_id, 0, "cb_answer")]
    /\ UNCHANGED <<orchVars, probe, sched, main, limiter>>

\* commands.py lines 102-107: within the cooldown the command is answered
\* and ends; otherwise it goes on.
RateLimit(n) ==
    /\ units[n].at = "rate_limit"
    /\ \E limited \in BOOLEAN, ok \in BOOLEAN :
          LET u == units[n]
          IN  units' = [units EXCEPT ![n] =
                 IF ~limited THEN StatementReturned(u, u.events, NoChannel)
                 ELSE IF ok
                 THEN [u EXCEPT !.events = Append(@, Event("notice", "too_often")),
                                !.at = "done"]
                 ELSE StatementRaised(u, u.events)]
    /\ UNCHANGED <<orchVars, probe, sched, main, limiter>>

NoticeStatements ==
    {"started", "skip", "confirm", "failure_notice", "need_channel", "cb_answer",
     "starting", "error_edit", "error_answer"}

\* A message to the user's chat is sent or edited, or the call raises.
SendNotice(n) ==
    /\ units[n].at \in NoticeStatements
    /\ \E ok \in BOOLEAN :
          LET u == units[n]
          IN  units' = [units EXCEPT ![n] =
                 IF ok
                 THEN StatementReturned(u,
                         Append(u.events, Event("notice", NoticeAt(u.kind, u.at))), u.ch)
                 ELSE StatementRaised(u, u.events)]
    /\ UNCHANGED <<orchVars, probe, sched, main, limiter>>

ProgressStages(at) ==
    CASE at = "progress"        -> <<"start", "reddit", "freelance", "trends">>
      [] at = "progress_report" -> <<"report">>
      [] OTHER                  -> <<"done">>

\* send_progress_updates for the stages of one place of cmd_analyze: the
\* first k calls return, the next one, if any, raises.
Progress(n) ==
    /\ units[n].at \in {"progress", "progress_report", "progress_done"}
    /\ LET u == units[n]
           stages == ProgressStages(u.at)
       IN  \E k \in 0..Len(stages) :
              LET shown == u.events \o [i \in 1..k |-> Event("progress", stages[i])]
              IN  units' = [units EXCEPT ![n] =
                     IF k = Len(stages) THEN StatementReturned(u, shown, u.ch)
                     ELSE StatementRaised(u, shown)]
    /\ UNCHANGED <<orchVars, probe, sched, main, limiter>>

CreateReportCall(days) == [Event("create_report", "") EXCEPT !.days = days]

\* path, data = await create_report(user, params).  For cmd_analyze the
\* days are those of the command's text, here none.
CreateReport(n) ==
    /\ units[n].at = "create_report"
    /\ LET u == units[n]
           called == Append(u.events, CreateReportCall(DaysOf(u.kind)))
       IN  \/ \E ext \in PathExts :
                 units' = [units EXCEPT ![n] =
                    [StatementReturned(u, Append(called, Event("returned", ext)), u.ch)
                        EXCEPT !.ext = ext]]
           \/ units' = [units EXCEPT ![n] = StatementRaised(u, called)]
    /\ UNCHANGED <<orchVars, probe, sched, main, limiter>>

\* ch = await get_active_channel(db, user).  In the fired job the caption
\* is made and the function imported first (lines 74-76): either can raise
\* before the lookup is made.
LookupChannel(n) ==
    /\ units[n].at = "lookup"
    /\ LET u == units[n]
           looked == Append(u.events, Event("get_active_channel", ""))
       IN  \/ units' = [units EXCEPT ![n] =
                 StatementReturned(u, looked, GetActiveChannel(u.user))]
           \/ units' = [units EXCEPT ![n] = StatementRaised(u, looked)]
           \/ /\ u.kind = "firing"
              /\ units' = [units EXCEPT ![n] = StatementRaised(u, u.events)]
    /\ UNCHANGED <<orchVars, probe, sched, main, limiter>>

\* await publish_to_channel(ch.channel_id, path, caption)
Publish(n) ==
    /\ units[n].at = "publish"
    /\ \E sends \in BOOLEAN :
          LET u == units[n]
              r == PublishToChannel(u.ext, sends)
              published == Append(u.events, Event("publish", u.ch.channel_id)) \o r.calls
          IN  units' = [units EXCEPT ![n] =
                 IF r.raised THEN StatementRaised(u, published)
                 ELSE StatementReturned(u, published, u.ch)]
    /\ UNCHANGED <<orchVars, probe, sched, main, limiter>>

\* The scheduler under every call of its methods, and the jobs it fires.
NextSched ==
    \/ Start
    \/ Shutdown
    \/ \E u \in Users, i \in 1..Len(DaysChoices) : AddJob(u, ChatOf(u), DaysChoices[i])
    \/ \E id \in JobIds : RemoveJob(id)
    \/ \E u \in Users : PauseAll(u)
    \/ \E u \in Users : ResumeAll(u)
    \/ \E n \in Units, id \in JobIds : FireStart(n, id)
    \/ \E n \in Units : SendNotice(n)
    \/ \E n \in Units : CreateReport(n)
    \/ \E n \in Units : LookupChannel(n)
    \/ \E n \in Units : Publish(n)

SpecSched == Init /\ [][NextSched]_vars

\* The three entry paths to report creation: the scheduler is started and
\* given daily jobs, which fire; users send /analyze and press the button.
NextEntry ==
    \/ Start
    \/ \E u \in Users : AddJob(u, ChatOf(u), DaysChoices[1])
    \/ \E n \in Units, id \in JobIds : FireStart(n, id)
    \/ \E n \in Units, u \in Users : CmdAnalyze(n, u)
    \/ \E n \in Units, u \in Users : OnRunAnalysis(n, u)
    \/ \E n \in Units : RateLimit(n)
    \/ \E n \in Units : SendNotice(n)
    \/ \E n \in Units : Progress(n)
    \/ \E n \in Units : CreateReport(n)
    \/ \E n \in Units : LookupChannel(n)
    \/ \E n \in Units : Publish(n)

SpecEntry == Init /\ [][NextEntry]_vars

(***************************************************************************)
(* bot.py's main(): the setup (lines 38-90), the scheduler made and        *)
(* started (91-94), the container and the routers wired (97-107), polling  *)
(* inside try (110-111), and the finally block (112-120).  A statement     *)
(* that raises outside the try ends main() there; exc names the block      *)
(* whose exception main() ended with.                                      *)
(***************************************************************************)
\* Lines 38-90: configuration, database, bot, MCP client, report service.
MainSetup ==
    /\ main.at = "setup"
    /\ \E ok \in BOOLEAN :
          main' = IF ok THEN [main EXCEPT !.at = "scheduler"]
                  ELSE [main EXCEPT !.at = "exited", !.exc = "setup"]
    /\ UNCHANGED <<orchVars, probe, sched, units, limiter>>

\* Lines 92-94: trends_scheduler = TrendsScheduler(...); trends_scheduler.start()
MainStartScheduler ==
    /\ main.at = "scheduler"
    /\ sched' = Started(sched)
    /\ main' = [main EXCEPT !.at = "wire", !.starts = @ + 1]
    /\ UNCHANGED <<orchVars, probe, units, limiter>>

\* Lines 97-107: the container's fields are set, the routers included.
MainWire ==
    /\ main.at = "wire"
    /\ \E ok \in BOOLEAN :
          main' = IF ok THEN [main EXCEPT !.at = "polling"]
                  ELSE [main EXCEPT !.at = "exited", !.exc = "wire"]
    /\ UNCHANGED <<orchVars, probe, sched, units, limiter>>

\* Line 111: await dp.start_polling(bot) returns or raises; either way the
\* finally block is next.
MainPollingEnds ==
    /\ main.at = "polling"
    /\ \E ok \in BOOLEAN :
          main' = [main EXCEPT !.at = "finally", !.exc = IF ok THEN "" ELSE "polling"]
    /\ UNCHANGED <<orchVars, probe, sched, units, limiter>>

\* Lines 113-117: trends_scheduler.shutdown() inside try/except Exception: pass
MainFinally ==
    /\ main.at = "finally"
    /\ \E kept \in BOOLEAN : sched' = Stopped(sched, kept)
    /\ main' = [main EXCEPT !.at = "close", !.shutdowns = @ + 1]
    /\ UNCHANGED <<orchVars, probe, units, limiter>>

\* Lines 118-120: mcp.close(), db.dispose(), bot.session.close(); then the
\* exception of polling, if any, goes on.
MainClose ==
    /\ main.at = "close"
    /\ \E ok \in BOOLEAN :
          main' = IF ok THEN [main EXCEPT !.at = "exited"]
                  ELSE [main EXCEPT !.at = "exited", !.exc = "close"]
    /\ UNCHANGED <<orchVars, probe, sched, units, limiter>>

\* While main() polls, the dispatcher runs the handlers of the updates it
\* receives.
Handlers ==
    \/ \E n \in Units, u \in Users : CmdAnalyze(n, u)
    \/ \E n \in Units, u \in Users : OnRunAnalysis(n, u)
    \/ \E n \in Units : RateLimit(n)
    \/ \E n \in Units : SendNotice(n)
    \/ \E n \in Units : Progress(n)
    \/ \E n \in Units : CreateReport(n)
    \/ \E n \in Units : LookupChannel(n)
    \/ \E n \in Units : Publish(n)

NextMain ==
    \/ MainSetup
    \/ MainStartScheduler
    \/ MainWire
    \/ MainPollingEnds
    \/ MainFinally
    \/ MainClose
    \/ main.at = "polling" /\ Handlers

SpecMain == Init /\ [][NextMain]_vars

(***************************************************************************)
(* The rate limiter of /analyze (commands.py lines 16-18 and 99-136): the  *)
(* handlers of MaxCmds commands, which the event loop interleaves at their *)
(* awaits, and the wall clock.                                             *)
(***************************************************************************)
\* Lines 101-107: now - last < cooldown answers "too often" and returns;
\* otherwise the handler goes on to its first await.
LimiterCheck(k, user_id) ==
    /\ limiter.cmds[k].at = ""
    /\ LET last == limiter.last_analyze_at[user_id]
       IN  limiter' = [limiter EXCEPT
              !.cmds[k] = [user |-> user_id,
                           at |-> IF limiter.now - last < AnalyzeCooldown
                                  THEN "limited" ELSE "admitted"]]
    /\ UNCHANGED <<orchVars, probe, sched, units, main>>

\* Lines 109-123: no channel is set, or the lookup or a progress update
\* raises: the handler ends before create_report.
LimiterEndsEarly(k) ==
    /\ limiter.cmds[k].at = "admitted"
    /\ limiter' = [limiter EXCEPT !.cmds[k].at = "ended"]
    /\ UNCHANGED <<orchVars, probe, sched, units, main>>

\* Line 126: create_report is called for the user.
LimiterCreateReport(k) ==
    /\ limiter.cmds[k].at = "admitted"
    /\ limiter' = [limiter EXCEPT
          !.cmds[k].at = "running",
          !.starts = Append(@, [user |-> limiter.cmds[k].user, at |-> limiter.now])]
    /\ UNCHANGED <<orchVars, probe, sched, units, main>>

\* Lines 126-132: the report is created and published, and the time is
\* recorded for the user.
LimiterSucceeds(k) ==
    /\ limiter.cmds[k].at = "running"
    /\ limiter' = [limiter EXCEPT
          !.cmds[k].at = "done",
          !.last_analyze_at[limiter.cmds[k].user] = limiter.now]
    /\ UNCHANGED <<orchVars, probe, sched, units, main>>

\* Lines 133-136: a statement of the try block raised; nothing is recorded.
LimiterFails(k) ==
    /\ limiter.cmds[k].at = "running"
    /\ limiter' = [limiter EXCEPT !.cmds[k].at = "failed"]
    /\ UNCHANGED <<orchVars, probe, sched, units, main>>

\* Time passes: a second, or a whole cooldown.
LimiterTick(seconds) ==
    /\ limiter.ticks < MaxTicks
    /\ limiter' = [limiter EXCEPT !.now = @ + seconds, !.ticks = @ + 1]
    /\ UNCHANGED <<orchVars, probe, sched, units, main>>

NextLimiter ==
    \/ \E k \in Cmds, u \in Users : LimiterCheck(k, u)
    \/ \E k \in Cmds : LimiterEndsEarly(k)
    \/ \E k \in Cmds : LimiterCreateReport(k)
    \/ \E k \in Cmds : LimiterSucceeds(k)
    \/ \E k \in Cmds : LimiterFails(k)
    \/ \E seconds \in {1, AnalyzeCooldown} : LimiterTick(seconds)

SpecLimiter == Init /\ [][NextLimiter]_vars

(***************************************************************************)
(* Properties of create_report (specification Spec).                       *)
(***************************************************************************)
\* The rows of the reports table saved by call c.
RecordsBy(table, c) == {i \in 1..Len(table) : table[i].by = c}

\* The format of the artifact a call produced: the extension of the file
\* the fallback wrote, or the format the remote generator was asked for.
ProducedFormat(locals) ==
    IF locals.artifact = "local" THEN locals.target_path.ext ELSE locals.fmt0

\* C1: whenever create_report returns (path, data), the file at path exists
\* with size > 0 at that moment and exactly one record has been saved for
\* the call, with file_path = path, status "completed", data_json = data and
\* the format of the produced artifact.
C1_ReturnsArtifactAndRecord ==
    [][\A c \in Calls :
          (pc[c] = "save" /\ pc'[c] = "returned") =>
             LET path == call'[c].target_path
                 mine == RecordsBy(reports', c)
             IN  /\ Exists(fs', path)
                 /\ GetSize(fs', path) > 0
                 /\ Cardinality(mine) = 1
                 /\ \A i \in mine :
                       /\ reports'[i].file_path = path
                       /\ reports'[i].status = "completed"
                       /\ reports'[i].data_json = call'[c].data
                       /\ reports'[i].format = ProducedFormat(call'[c])]_vars

\* C2: a record exists only if its call materialized an artifact first (a
\* remote path found with size > 0, or a fallback file written locally);
\* every completed record references a path that exists; a call that
\* materialized no artifact has saved nothing.
C2_RecordOnlyAfterArtifact ==
    /\ \A i \in 1..Len(reports) :
          /\ call[reports[i].by].artifact \in {"remote", "local"}
          /\ reports[i].status = "completed" => Exists(fs, reports[i].file_path)
          /\ call[reports[i].by].artifact = "remote" =>
                GetSize(fs, reports[i].file_path) > 0
    /\ \A c \in Calls :
          call[c].artifact = "" => RecordsBy(reports, c) = {} /\ call[c].saves = 0

\* One call has returned a remote artifact with its record, another has
\* raised before any artifact.
C2_Witness ==
    \E c1, c2 \in Calls :
       /\ pc[c1] = "returned" /\ call[c1].artifact = "remote"
       /\ RecordsBy(reports, c1) # {}
       /\ pc[c2] = "raised" /\ call[c2].artifact = ""

\* C3: whatever the remote tool calls do, create_report raises only when
\* reading the settings, writing the file or saving the record fails, and a
\* call that returns has an artifact on disk and its record.
C3_RemoteFailuresAbsorbed ==
    \A c \in Calls :
       /\ pc[c] = "raised" => call[c].exc \in {"settings", "write", "save"}
       /\ pc[c] = "returned" =>
             /\ call[c].artifact \in {"remote", "local"}
             /\ Exists(fs, call[c].target_path)
             /\ Cardinality(RecordsBy(reports, c)) = 1

\* A call has returned the stub analysis in a locally written file: no
\* remote call gave anything usable.
C3_Witness ==
    \E c \in Calls :
       /\ pc[c] = "returned"
       /\ call[c].artifact = "local"
       /\ call[c].data.summary = "Stub analysis due to MCP server unavailability."

\* C8: when the local fallback runs, the written file's extension is html
\* if the requested format is html and txt otherwise, the file holds the
\* JSON-serialized analysis after the literal header line (txt) or inside
\* the <html>...<pre> wrapper (html), and the saved record's format is that
\* extension, not the requested format.
C8_FallbackFormat ==
    [][\A c \in Calls :
          /\ (pc[c] = "fallback" /\ pc'[c] = "save") =>
                LET ext == IF Lower(call[c].fmt0) = "html" THEN "html" ELSE "txt"
                    path == call'[c].target_path
                IN  /\ path.ext = ext
                    /\ Exists(fs', path)
                    /\ fs'[path] =
                          IF ext = "html"
                          THEN [head |-> "<html><body><h1>IT Trends Report</h1><pre>",
                                body |-> JsonDumps(call[c].data),
                                tail |-> "</pre></body></html>"]
                          ELSE [head |-> "IT Trends Report\n\n",
                                body |-> JsonDumps(call[c].data), tail |-> ""]
          /\ (pc[c] = "save" /\ pc'[c] = "returned" /\ call[c].artifact = "local") =>
                /\ RecordsBy(reports', c) # {}
                /\ \A i \in RecordsBy(reports', c) :
                      /\ reports'[i].file_path = call[c].target_path
                      /\ reports'[i].format = call[c].target_path.ext
                      /\ reports'[i].format \in {"html", "txt"}]_vars

\* A pdf or xlsx request has ended in a txt record, an html request (in any
\* letter case) in an html record.
C8_Witness ==
    \E i, j \in 1..Len(reports) :
       /\ call[reports[i].by].artifact = "local"
       /\ call[reports[i].by].fmt0 \in {"pdf", "xlsx"}
       /\ reports[i].format = "txt"
       /\ call[reports[j].by].artifact = "local"
       /\ reports[j].format = "html"

\* The file of a record is named by the scheme of the storage directory.
NamedByScheme(r) ==
    /\ r.file_path.dir = StoragePath
    /\ r.file_path.prefix = "report"
    /\ r.file_path.user = r.user_id
    /\ r.file_path.ts \in Nat

\* C9 as stated: every record, its artifact remote or local, references
\* <storage root>/report_{user}_{timestamp}.{ext} with ext in {pdf, xlsx,
\* html, txt}, and its format is that ext.
C9_EveryRecordNamedByScheme ==
    \A i \in 1..Len(reports) :
       /\ NamedByScheme(reports[i])
       /\ reports[i].file_path.ext \in {"pdf", "xlsx", "html", "txt"}
       /\ reports[i].format = reports[i].file_path.ext

\* C9 as the code has it: a record of a local fallback references
\* <storage root>/report_{user}_{timestamp}.{ext} with ext in {html, txt}
\* and its format is that ext; a record of a remote artifact references the
\* path the generator returned, whatever it is, and its format is the
\* requested format.
C9_FallbackRecordsNamedByScheme ==
    \A i \in 1..Len(reports) :
       LET r == reports[i]
           own == call[r.by]
       IN  /\ own.artifact = "local" =>
                 /\ NamedByScheme(r)
                 /\ r.file_path.ext \in {"html", "txt"}
                 /\ r.format = r.file_path.ext
           /\ own.artifact = "remote" =>
                 /\ r.file_path = own.target_path
                 /\ r.format = own.fmt0

\* A fallback record and the record of a remote artifact that lies outside
\* the storage root under an extension that is not its format.
C9_Witness ==
    \E i, j \in 1..Len(reports) :
       /\ call[reports[i].by].artifact = "local"
       /\ call[reports[j].by].artifact = "remote"
       /\ reports[j].file_path.dir # StoragePath
       /\ reports[j].format # reports[j].file_path.ext

Usable(st) ==
    /\ st.status = "returned"
    /\ LET u == UnwrapToolResult(st.result)
       IN  u.kind = "dict" \/ (u.kind = "str" /\ JsonLoads(u.str).kind = "dict")

\* C4: if every candidate analysis tool fails or returns neither a mapping
\* nor a string parseable as one, the analysis step does not raise and
\* returns the literal stub with the requested source toggles echoed back
\* (hence equal documents for equal params).
C4_StubWhenAllFail ==
    (probe.fn = "analyze_trends" /\ \A i \in 1..Len(AnalyzeTools) : ~Usable(probe.calls[i]))
    => /\ ~probe.analysis.raised
       /\ probe.analysis.data =
             [EmptyDict EXCEPT
                 !.date = "today",
                 !.top_trends = <<"AI Agents", "Rust", "Kotlin Multiplatform">>,
                 !.growth_leaders = <<"LangChain", "WebGPU", "Bun">>,
                 !.sources = probe.request.sources,
                 !.summary = "Stub analysis due to MCP server unavailability."]

\* The stub is returned for a request with a source switched off, after one
\* candidate raised and another returned an unusable shape.
C4_Witness ==
    /\ probe.fn = "analyze_trends"
    /\ \A i \in 1..Len(AnalyzeTools) : ~Usable(probe.calls[i])
    /\ \E i, j \in 1..Len(AnalyzeTools) :
          probe.calls[i].status = "raised" /\ probe.calls[j].status = "returned"
    /\ probe.request.sources # {DefaultSources}
    /\ probe.analysis.stub

\* The calls of the remote side in a loop's log.
CallsMade(log) == {i \in 1..Len(log) : log[i].ev = "call"}

\* A loop of three attempts whose first two failed and whose third succeeded.
FailsTwiceThenSucceeds ==
    /\ probe.fn \in {"call_tool", "request"}
    /\ probe.retry_attempts = 3
    /\ Len(probe.outcomes) = 3
    /\ ~probe.outcomes[1].ok /\ ~probe.outcomes[2].ok /\ probe.outcomes[3].ok

\* C5: a remote call whose first two attempts fail and whose third succeeds
\* returns the third attempt's result without raising, waits once the base
\* delay between attempts 1 and 2 and twice the base delay between attempts
\* 2 and 3, and makes no fourth attempt.
C5_RetryBackoff ==
    FailsTwiceThenSucceeds =>
       LET base_delay == IF probe.fn = "call_tool" THEN ToolDelay ELSE RequestDelay
       IN  /\ probe.loop.status = "returned"
           /\ probe.loop.result = probe.outcomes[3].value
           /\ probe.loop.log = << CallEvent(1), SleepEvent(1 * base_delay),
                                  CallEvent(2), SleepEvent(2 * base_delay),
                                  CallEvent(3) >>

C5_Witness ==
    /\ FailsTwiceThenSucceeds
    /\ probe.fn = "request"
    /\ probe.loop.status = "returned"
    /\ Cardinality(CallsMade(probe.loop.log)) = 3

\* C6: for every configured attempt count a gateway call that has ended
\* either returned the result of a successful attempt, or raised the error
\* of the last attempt after exactly the configured number of attempts, all
\* failed; it never returns without a successful attempt.
C6_ReturnsOrRaises ==
    (probe.fn \in {"call_tool", "request"} /\ probe.loop.status # "running") =>
       LET n == Len(probe.outcomes)
       IN  \/ /\ probe.loop.status = "returned"
              /\ n >= 1
              /\ probe.outcomes[n].ok
              /\ probe.loop.result = probe.outcomes[n].value
           \/ /\ probe.loop.status = "raised"
              /\ n = probe.retry_attempts
              /\ Cardinality(CallsMade(probe.loop.log)) = probe.retry_attempts
              /\ \A i \in 1..n : ~probe.outcomes[i].ok
              /\ n >= 1
              /\ probe.loop.last_exc = probe.outcomes[n].exc

\* The files candidate i of the generation step finds when its tool call
\* has ended.
RECURSIVE FilesSeen(_)
FilesSeen(i) ==
    IF i = 0 THEN probe.files
    ELSE RemoteWrite(FilesSeen(i - 1), probe.outs[i].write)

\* Candidate i names a path that exists with a size above 0.
Qualifies(i) ==
    /\ probe.outs[i].call.status = "returned"
    /\ probe.outs[i].names # NoPath
    /\ probe.outs[i].names \in DOMAIN FilesSeen(i)
    /\ FilesSeen(i)[probe.outs[i].names] # EmptyFile

\* The tools asked, in order.
ToolsTried(tried) == [i \in 1..Len(tried) |-> tried[i].tool]

\* C7: the generation step returns a remote path only if it exists with
\* size > 0 when checked; candidates that raise, name no path, a missing
\* path or an empty file are skipped and the next of generate_report,
\* report_generate, create_report is tried; if none qualifies the step
\* returns the empty path.
C7_FirstQualifyingCandidate ==
    probe.fn = "generate_report" =>
       LET qualifying == {i \in 1..3 : Qualifies(i)}
           got == probe.generated
       IN  IF qualifying = {} THEN
               /\ got.path = NoPath
               /\ ToolsTried(got.tried) =
                     <<"generate_report", "report_generate", "create_report">>
           ELSE
               LET k == CHOOSE i \in qualifying : \A j \in qualifying : i <= j
               IN  /\ got.path = probe.outs[k].names
                   /\ got.path \in DOMAIN got.files
                   /\ got.files[got.path] # EmptyFile
                   /\ ToolsTried(got.tried) =
                         SubSeq(<<"generate_report", "report_generate", "create_report">>,
                                1, k)

\* The third candidate is taken after the first raised and the second named
\* an empty file.
C7_Witness ==
    /\ probe.fn = "generate_report"
    /\ probe.outs[1].call.status = "raised"
    /\ probe.outs[2].names # NoPath /\ ~Qualifies(2)
    /\ Exists(FilesSeen(2), probe.outs[2].names)
    /\ Qualifies(3)
    /\ probe.generated.path = probe.outs[3].names
    /\ Len(probe.generated.tried) = 3

(***************************************************************************)
(* Properties of the scheduler and of the jobs it fires (specification     *)
(* SpecSched).                                                             *)
(***************************************************************************)
\* The statements of unit u that raised, in order.
RaisedAt(u) == [i \in 1..Len(SelectSeq(u.events, LAMBDA e : e.ev = "raised")) |->
                   SelectSeq(u.events, LAMBDA e : e.ev = "raised")[i].arg]

\* C12: a firing of execute_scheduled_analysis never ends by raising to the
\* timer engine, whichever of its statements raised, the failure notice
\* included; and no step of a firing changes the scheduler: the job stays
\* registered, the scheduler keeps running and jobs_by_user is unchanged.
C12_FiringNeverPropagates ==
    /\ [](\A n \in Units : units[n].kind = "firing" => ~units[n].propagated)
    /\ [][\A n \in Units :
             (units'[n] # units[n] /\ units'[n].kind = "firing") =>
                /\ sched'.running = sched.running
                /\ sched'.jobs = sched.jobs
                /\ sched'.jobs_by_user = sched.jobs_by_user]_vars

\* A firing whose statement raised and whose failure notice raised too has
\* ended, its job registered and the scheduler running.
C12_Witness ==
    \E n \in Units :
       /\ units[n].kind = "firing"
       /\ units[n].at = "done"
       /\ Len(RaisedAt(units[n])) = 2
       /\ RaisedAt(units[n])[2] = "failure_notice"
       /\ ~units[n].propagated
       /\ sched.running
       /\ Registered(sched.jobs, units[n].job)

\* Where in the events of a unit an event of the given kind and argument is.
At(events, ev, arg) == {i \in 1..Len(events) : events[i].ev = ev /\ events[i].arg = arg}

Of(events, ev) == {i \in 1..Len(events) : events[i].ev = ev}

Before(earlier, later) == \A j \in later : \E i \in earlier : i < j

\* C13: the steps of a firing come in the order started notice,
\* create_report with days = 7, channel lookup, then a skip notice and no
\* publish when the user has no channel, or one publish and then the
\* confirmation when one is set; publish comes only after create_report
\* has returned; at most one of the skip, confirmation and failure notices
\* is sent.
C13_FiringOrder ==
    \A n \in Units :
       units[n].kind = "firing" =>
          LET e == units[n].events
              ch == GetActiveChannel(units[n].user)
              outcome == At(e, "notice", "no_channel_skip") \cup At(e, "notice", "published")
                            \cup At(e, "notice", "failed")
          IN  /\ Before(At(e, "notice", "started"), Of(e, "create_report"))
              /\ Cardinality(Of(e, "create_report")) <= 1
              /\ \A i \in Of(e, "create_report") : e[i].days = 7
              /\ Before(Of(e, "returned"), Of(e, "get_active_channel"))
              /\ Before(Of(e, "get_active_channel"), Of(e, "publish"))
              /\ Before(Of(e, "returned"), Of(e, "publish"))
              /\ Cardinality(Of(e, "publish")) <= 1
              /\ Of(e, "publish") # {} =>
                    /\ ch # NoChannel
                    /\ \A i \in Of(e, "publish") : e[i].arg = ch.channel_id
              /\ At(e, "notice", "no_channel_skip") # {} =>
                    /\ ch = NoChannel
                    /\ Of(e, "publish") = {}
                    /\ Before(Of(e, "get_active_channel"), At(e, "notice", "no_channel_skip"))
              /\ \A i \in At(e, "notice", "published") :
                    /\ i > 2
                    /\ e[i - 2].ev = "publish"
                    /\ e[i - 1].ev \in {"send_document", "send_message"}
              /\ Cardinality(outcome) <= 1

\* A firing for the user with a channel went through every step.
C13_Witness ==
    \E n \in Units :
       /\ units[n].kind = "firing"
       /\ units[n].at = "done"
       /\ [i \in 1..Len(units[n].events) |-> units[n].events[i].ev] =
             <<"notice", "create_report", "returned", "get_active_channel", "publish",
               "send_document", "notice">>
       /\ units[n].events[7].arg = "published"

\* The step is a call of the scheduler's method op.
Called(op) == sched' # sched /\ sched'.last.op = op

\* The identifiers in a user's list of jobs_by_user.
IdsOf(index, u) == {index[u][i] : i \in 1..Len(index[u])}

\* C15: an add_job call, also one that repeats the user, chat, time and
\* days of a job there is, registers one more job and leaves the others as
\* they were; the identifier it returns is none of those registered or
\* listed before, and it is appended to the list of the owning user only.
C15_AddJobAddsOne ==
    [][Called("add_job") =>
          LET id == sched'.last.id
              owner == sched'.last.user
          IN  /\ ~Registered(sched.jobs, id)
              /\ \A u \in Users : id \notin IdsOf(sched.jobs_by_user, u)
              /\ DOMAIN sched'.jobs = DOMAIN sched.jobs \cup {id}
              /\ Cardinality(DOMAIN sched'.jobs) = Cardinality(DOMAIN sched.jobs) + 1
              /\ \A i \in DOMAIN sched.jobs : sched'.jobs[i] = sched.jobs[i]
              /\ sched'.jobs[id].user_id = owner
              /\ sched'.jobs_by_user[owner] = Append(sched.jobs_by_user[owner], id)
              /\ \A u \in Users \ {owner} :
                    sched'.jobs_by_user[u] = sched.jobs_by_user[u]]_vars

\* A second job of the same user, chat, time and days was added: both are
\* registered, under two identifiers, both in the user's list.
C15_Witness ==
    /\ sched.last.op = "add_job"
    /\ \E i, j \in DOMAIN sched.jobs :
          /\ i # j
          /\ sched.jobs[i] = sched.jobs[j]
          /\ sched.jobs_by_user[sched.jobs[i].user_id] = <<i, j>>

\* C16: pause_all and resume_all of a user add, remove and duplicate no
\* job identifier, in the engine or in jobs_by_user; they pause, or resume,
\* each registered job of the user and leave the jobs of other users as
\* they are.  So pause_all then resume_all leaves the user's jobs
\* registered under the same identifiers and not paused.
C16_PauseThenResume ==
    [][(Called("pause_all") \/ Called("resume_all")) =>
          LET owner == sched'.last.user
              paused == sched'.last.op = "pause_all"
          IN  /\ DOMAIN sched'.jobs = DOMAIN sched.jobs
              /\ sched'.jobs_by_user = sched.jobs_by_user
              /\ sched'.issued = sched.issued
              /\ \A i \in DOMAIN sched.jobs :
                    sched'.jobs[i] =
                       IF sched.jobs[i].user_id = owner
                       THEN [sched.jobs[i] EXCEPT !.paused = paused]
                       ELSE sched.jobs[i]]_vars

\* resume_all of a user came right after pause_all of the same user: the
\* user's job is registered and not paused, while the job of another user,
\* paused before, is paused still.
C16_Witness ==
    /\ sched.last.op = "resume_all"
    /\ sched.last.after_pause = sched.last.user
    /\ \E i, j \in DOMAIN sched.jobs :
          /\ sched.jobs[i].user_id = sched.last.user
          /\ ~sched.jobs[i].paused
          /\ sched.jobs_by_user[sched.last.user] = <<i>>
          /\ sched.jobs[j].user_id # sched.last.user
          /\ sched.jobs[j].paused

\* C17: remove_job, pause_all and resume_all never raise, also for an
\* identifier the engine does not know or a job removed before; and
\* pause_all and resume_all go on to the user's remaining jobs after a job
\* the engine raised for.
C17_NeverRaise ==
    /\ [](sched.last.op \in {"remove_job", "pause_all", "resume_all"} => ~sched.last.raised)
    /\ [][(Called("pause_all") \/ Called("resume_all")) =>
             LET ids == sched.jobs_by_user[sched'.last.user]
             IN  \A k \in 1..Len(ids) :
                    Registered(sched.jobs, ids[k]) =>
                       sched'.jobs[ids[k]].paused = (sched'.last.op = "pause_all")]_vars

\* pause_all of a user whose first listed job was removed from the engine:
\* the call returned and the job listed after it is paused.
C17_Witness ==
    /\ sched.last.op = "pause_all"
    /\ ~sched.last.raised
    /\ LET ids == sched.jobs_by_user[sched.last.user]
       IN  /\ Len(ids) = 2
           /\ ~Registered(sched.jobs, ids[1])
           /\ Registered(sched.jobs, ids[2])
           /\ sched.jobs[ids[2]].paused

\* The scheduler but for the account of its last call.
Settled(s) == [s EXCEPT !.last = NoOp]

\* C18: start on a running scheduler and shutdown on a stopped one change
\* nothing; the engine is started only by a start that finds it stopped
\* and stopped only by a shutdown that finds it running, nothing else
\* changes whether it runs, and shutdown is asked not to wait: the fired
\* jobs in flight are where they were when it returns.
C18_StartShutdownIdempotent ==
    [][/\ Called("start") =>
             /\ sched'.last.engine = (IF sched.running THEN "" ELSE "start")
             /\ sched'.running
             /\ sched.running => Settled(sched') = Settled(sched)
       /\ Called("shutdown") =>
             /\ sched'.last.engine = (IF sched.running THEN "shutdown" ELSE "")
             /\ ~sched'.running
             /\ ~sched.running => Settled(sched') = Settled(sched)
             /\ ~sched'.last.wait
             /\ units' = units
       /\ sched'.running # sched.running =>
             /\ Called("start") \/ Called("shutdown")
             /\ sched'.last.engine = sched'.last.op]_vars

\* shutdown was called on a stopped scheduler and did not reach the
\* engine, while a job fired before the scheduler stopped is in flight.
C18_Witness ==
    /\ sched.last.op = "shutdown"
    /\ sched.last.engine = ""
    /\ ~sched.running
    /\ \E n \in Units : units[n].kind = "firing" /\ ~Idle(n)

(***************************************************************************)
(* Properties of the entry paths (specification SpecEntry).                *)
(***************************************************************************)
\* The unit ran to its end with no statement raising and was not turned
\* away by the rate limit.
RanThrough(u) ==
    /\ u.at = "done"
    /\ Of(u.events, "raised") = {}
    /\ At(u.events, "notice", "too_often") = {}

Delivery(events) ==
    Of(events, "publish") \cup Of(events, "send_document") \cup Of(events, "send_message")

\* C14 as stated: on every entry path a user without a channel gets the
\* artifact and record of a create_report call, nothing is delivered and a
\* no-channel notice is sent.
C14_ReportWithoutChannel ==
    \A n \in Units :
       (units[n].kind # "" /\ Channels[units[n].user] = {} /\ RanThrough(units[n])) =>
          LET e == units[n].events
          IN  /\ Of(e, "returned") # {}
              /\ Delivery(e) = {}
              /\ At(e, "notice", "no_channel_skip") \cup At(e, "notice", "set_channel_first")
                    # {}

\* C14: for a user without a channel nothing is delivered on any entry
\* path.  /analyze and the run_analysis button look the channel up first,
\* answer with the set-channel notice and never call create_report.  A
\* fired job calls create_report first; when that has returned and the
\* lookup finds no channel it sends the skip notice; when the lookup step
\* raises it sends the failure notice instead.
C14_NoChannelNoDelivery ==
    \A n \in Units :
       (units[n].kind # "" /\ Channels[units[n].user] = {}) =>
          LET u == units[n]
              e == u.events
              skip == At(e, "notice", "no_channel_skip")
              need == At(e, "notice", "set_channel_first")
          IN  /\ Delivery(e) = {}
              /\ u.kind \in {"analyze", "callback"} =>
                    /\ Of(e, "create_report") = {}
                    /\ skip = {}
                    /\ RanThrough(u) => need # {}
              /\ u.kind = "firing" =>
                    /\ need = {}
                    /\ Before(Of(e, "returned"), skip)
                    /\ RanThrough(u) => (Of(e, "returned") # {} /\ skip # {})
                    /\ (u.at = "done" /\ Of(e, "returned") # {} /\ skip = {}) =>
                          Of(e, "raised") # {}

\* A job fired for the user without a channel: create_report returned, the
\* skip notice was sent, nothing was published.
C14_Witness ==
    \E n \in Units :
       /\ units[n].kind = "firing"
       /\ Channels[units[n].user] = {}
       /\ RanThrough(units[n])
       /\ Of(units[n].events, "returned") # {}
       /\ At(units[n].events, "notice", "no_channel_skip") # {}

(***************************************************************************)
(* Properties of main() (specification SpecMain).                          *)
(***************************************************************************)
\* C19: in every run the scheduler is started once and, when main() has
\* ended after starting it, was shut down once and does not run, also when
\* main() ended by an exception raised after the start.
C19_StartedOnceShutDownOnce ==
    /\ main.starts <= 1
    /\ main.shutdowns <= 1
    /\ (main.at = "exited" /\ main.starts = 1) => (main.shutdowns = 1 /\ ~sched.running)

(***************************************************************************)
(* Properties of publish_to_channel (specification SpecFn).                *)
(***************************************************************************)
\* C20: a publish call makes one call to the transport: send_document
\* with the caption when the extension of the path, in any case of
\* letters, is one of the document formats, send_message with the caption
\* otherwise; when that call fails the publish call raises, having made no
\* second call.
C20_OneTransportCall ==
    probe.fn = "publish_to_channel" =>
       /\ Len(probe.published.calls) = 1
       /\ probe.published.calls[1] =
             Event(IF Lower(probe.ext) \in DocumentExts THEN "send_document"
                   ELSE "send_message", "caption")
       /\ probe.published.raised = ~probe.sends

\* A path ending in .PDF was published as a document and the send failed:
\* one call was made and the publish call raised.
C20_Witness ==
    /\ probe.fn = "publish_to_channel"
    /\ probe.ext = "PDF"
    /\ ~probe.sends
    /\ probe.published.raised
    /\ [i \in 1..Len(probe.published.calls) |-> probe.published.calls[i].ev] =
          <<"send_document">>

(***************************************************************************)
(* Properties of the normalizer (specification SpecFn).                    *)
(***************************************************************************)
\* The Python types a normalized result can have.
ValueKinds == {"dict", "str", "list", "envelope", "other", "none"}

\* C21: the normalizer raises for no result shape; what it returns that is
\* neither a mapping nor a string is skipped by the analysis and by the
\* generation step as a candidate without a result, and raises in neither.
C21_NormalizerNeverRaises ==
    probe.fn = "unwrap" =>
       /\ probe.unwrapped.kind \in ValueKinds
       /\ probe.unwrapped.kind \notin {"dict", "str"} =>
             LET st == CallToolWithRetries(<<Ok(probe.value)>>)
             IN  /\ AnalyzeCandidate(st) =
                       [accepted |-> FALSE, raised |-> FALSE, dict |-> EmptyDict]
                 /\ \A f \in 1..Len(FilesChoices) :
                       GenerateCandidate(FilesChoices[f], st) = NoPath
                 /\ ~AnalyzeTrends(RequestChoices[1], <<st, st, st>>).raised
                 /\ AnalyzeTrends(RequestChoices[1], <<st, st, st>>).stub

\* An envelope whose data has a model_dump() that raises was normalized:
\* the data object came back, which is no mapping.
C21_Witness ==
    /\ probe.fn = "unwrap"
    /\ probe.value.kind = "envelope"
    /\ probe.value.env.data.kind = "model_dump"
    /\ probe.value.env.data.raises
    /\ probe.unwrapped.kind = "other"

\* C22: a value that is a mapping, a list or a string is returned as it
\* is, so for such a value m: normalize(normalize(m)) = normalize(m) = m.
C22_BasicTypesUnchanged ==
    (probe.fn = "unwrap" /\ probe.value.kind \in {"dict", "str", "list"}) =>
       /\ probe.unwrapped = probe.value
       /\ UnwrapToolResult(probe.unwrapped) = probe.value
       /\ UnwrapToolResult(UnwrapToolResult(probe.value)) = UnwrapToolResult(probe.value)

\* A string holding the JSON text of a mapping was normalized and came back
\* as that string.
C22_Witness ==
    /\ probe.fn = "unwrap"
    /\ probe.value = StrValue(JsonDumps(RemoteDocB))
    /\ probe.unwrapped = probe.value

(***************************************************************************)
(* Properties of health_check (specification SpecFn).                      *)
(***************************************************************************)
\* C23: health_check lets no error out: however its request ends, with a
\* connection error, an HTTP error status, a timeout or a body that is not
\* JSON, it returns a boolean, and it returns False when the request raised.
C23_HealthCheckNeverRaises ==
    (probe.fn = "health_check" /\ probe.loop.status # "running") =>
       /\ probe.health.ended
       /\ ~probe.health.raised
       /\ probe.health.value \in BOOLEAN
       /\ probe.loop.status = "raised" => ~probe.health.value
       /\ (probe.loop.status = "returned" /\ probe.loop.result.kind = "dict") =>
             (probe.health.value <=> probe.loop.result.dict.status = "ok")

\* The request raised an HTTP error status after its attempts and
\* health_check returned False.
C23_Witness ==
    /\ probe.fn = "health_check"
    /\ probe.loop.status = "raised"
    /\ probe.loop.last_exc = "ClientResponseError"
    /\ probe.health.ended
    /\ ~probe.health.raised
    /\ ~probe.health.value

\* The sleeps in a loop's log.
SleepsMade(log) == {i \in 1..Len(log) : log[i].ev = "sleep"}

\* C29: a health_check call that has ended, of a client configured with
\* at least one attempt, made one request to /health, also when that
\* request failed, and slept for no backoff.
C29_OneProbeRequest ==
    (probe.fn = "health_check" /\ probe.health.ended /\ probe.retry_attempts >= 1) =>
       /\ Cardinality(CallsMade(probe.loop.log)) = 1
       /\ SleepsMade(probe.loop.log) = {}

(***************************************************************************)
(* Properties of the request create_report builds (specification SpecFn).  *)
(***************************************************************************)
\* The value under a key of params, or the fallback when the key is absent.
Given(opt, fallback) == IF opt # {} THEN CHOOSE x \in opt : TRUE ELSE fallback

\* C24: the request takes, for days, sources, include_charts and language,
\* the caller's value when params has the key and the stored value when it
\* has not (each stored source toggle, True for a toggle the stored mapping
\* lacks); the target format is the format of params if given, else the
\* stored format, else pdf.
C24_RequestFromParamsThenSettings ==
    probe.fn = "build_request" =>
       LET params == probe.params
           row == probe.row
           req == probe.request
           stored == [reddit |-> Given(row.sources.reddit, TRUE),
                      freelance |-> Given(row.sources.freelance, TRUE),
                      trends |-> Given(row.sources.trends, TRUE)]
       IN  /\ req.days = Given(params.days, row.analysis_days)
           /\ req.sources = {Given(params.sources, stored)}
           /\ req.include_charts = Given(params.include_charts, row.include_charts)
           /\ req.language = Given(params.language, row.language)
           /\ probe.fmt = (IF params.format # "" THEN params.format
                           ELSE IF row.report_format # "" THEN row.report_format
                           ELSE "pdf")

\* The caller overrode the days only, for the user with stored settings:
\* the days are the caller's, the rest is as stored.
C24_Witness ==
    /\ probe.fn = "build_request"
    /\ probe.params.days = {1}
    /\ probe.params.language = {}
    /\ probe.row = StoredSettings
    /\ probe.request.days = 1
    /\ probe.request.language = "ru"
    /\ probe.request.include_charts = FALSE
    /\ probe.fmt = "HTML"

(***************************************************************************)
(* Further properties of create_report (specification Spec).               *)
(***************************************************************************)
\* C25: no step of a create_report call, of one that returns or of one
\* that raises, for a user with stored settings or without, changes the
\* user_settings table.
C25_SettingsNeverWritten == [][settings' = settings]_vars

\* C26: the reports directory is append-only under every interleaving of
\* create_report calls: no write of a call replaces or truncates a file that
\* is there, so the file of every completed record of a fallback report
\* holds the content written for that record, also for two overlapping
\* fallback reports of one user.
C26_ReportsDirAppendOnly ==
    /\ [][\A c \in Calls :
             (pc[c] = "fallback" /\ pc'[c] # "fallback") =>
                \A p \in DOMAIN fs : fs'[p] = fs[p]]_vars
    /\ [](\A i \in 1..Len(reports) :
             (reports[i].status = "completed"
                 /\ call[reports[i].by].artifact = "local") =>
                /\ Exists(fs, reports[i].file_path)
                /\ fs[reports[i].file_path] =
                      FallbackContent(reports[i].file_path.ext, reports[i].data_json))

(***************************************************************************)
(* Further properties of the functions (specification SpecFn).             *)
(***************************************************************************)
\* The mapping a usable tool call ended with.
MappingOf(st) ==
    LET u == UnwrapToolResult(st.result)
    IN  IF u.kind = "dict" THEN u.dict ELSE JsonLoads(u.str).dict

\* The candidates before which no candidate was usable.
FirstUsable(calls) ==
    {i \in 1..Len(calls) : Usable(calls[i]) /\ \A j \in 1..(i - 1) : ~Usable(calls[j])}

\* C27: the analysis step tries analyze_trends, analyze, trends_analyze in
\* this order; a candidate is tried only after every earlier one raised
\* after its retries or answered something unusable; the step returns the
\* mapping of the first usable candidate and calls no candidate after it.
C27_FirstUsableCandidateWins ==
    probe.fn = "analyze_trends" =>
       LET tried == probe.analysis.tried
       IN  /\ Len(tried) \in 1..Len(AnalyzeTools)
           /\ \A i \in 1..Len(tried) :
                 /\ tried[i].tool = <<"analyze_trends", "analyze", "trends_analyze">>[i]
                 /\ tried[i].log = probe.calls[i].log
                 /\ i < Len(tried) => ~Usable(probe.calls[i])
           /\ \A k \in FirstUsable(probe.calls) :
                 /\ Len(tried) = k
                 /\ ~probe.analysis.raised /\ ~probe.analysis.stub
                 /\ probe.analysis.data = MappingOf(probe.calls[k])
           /\ FirstUsable(probe.calls) = {} => Len(tried) = Len(AnalyzeTools)

\* The first candidate raised after its retries, the second answered a
\* string that parses to a mapping and was accepted, and the third, which
\* would have answered another mapping, was not called.
C27_Witness ==
    /\ probe.fn = "analyze_trends"
    /\ probe.calls[1].status = "raised"
    /\ Usable(probe.calls[2])
    /\ UnwrapToolResult(probe.calls[2].result).kind = "str"
    /\ Usable(probe.calls[3])
    /\ MappingOf(probe.calls[3]) # MappingOf(probe.calls[2])
    /\ Len(probe.analysis.tried) = 2
    /\ probe.analysis.data = MappingOf(probe.calls[2])

\* C28: in both retry loops the sleep after the k-th failed attempt lasts
\* k times the base delay and is followed by attempt k + 1: a loop that has
\* ended did not sleep after its last failed attempt, and a call whose 3
\* attempts all failed waited the base delay and twice the base delay, and
\* no more, before it raised.
C28_SleepOnlyBetweenAttempts ==
    (probe.fn \in {"call_tool", "request"}) =>
       LET base_delay == IF probe.fn = "call_tool" THEN ToolDelay ELSE RequestDelay
           log == probe.loop.log
       IN  /\ \A i \in SleepsMade(log) :
                 /\ i > 1 /\ log[i - 1].ev = "call"
                 /\ log[i].n = log[i - 1].n * base_delay
                 /\ probe.loop.status # "running" =>
                       (i < Len(log) /\ log[i + 1] = CallEvent(log[i - 1].n + 1))
           /\ (probe.retry_attempts = 3 /\ probe.loop.status = "raised") =>
                 log = << CallEvent(1), SleepEvent(1 * base_delay),
                          CallEvent(2), SleepEvent(2 * base_delay),
                          CallEvent(3) >>

(***************************************************************************)
(* The local fallback of create_report (specification Spec).               *)
(***************************************************************************)
\* The files other than p are in `after` what they are in `before`.
OnlyWritten(before, after, p) ==
    /\ Exists(after, p)
    /\ DOMAIN after = DOMAIN before \cup {p}
    /\ \A q \in DOMAIN before \ {p} : after[q] = before[q]

\* C30: the local fallback is entered if and only if the generation step
\* yielded no accepted remote path.  A call with an accepted remote
\* artifact never enters the fallback, writes no file when it saves, and
\* records the requested format; a call without one writes exactly one
\* local file, before any record of it is saved, and nothing else.
C30_FallbackIffNoRemotePath ==
    [][\A c \in Calls :
          /\ (pc[c] = "generate" /\ pc'[c] # "generate") =>
                /\ pc'[c] \in {"fallback", "save"}
                /\ pc'[c] = "fallback" <=> call'[c].target_path = NoPath
                /\ pc'[c] = "save" <=> call'[c].artifact = "remote"
          /\ (pc'[c] = "fallback" /\ pc[c] # "fallback") => pc[c] = "generate"
          /\ call'[c].artifact = "remote" => pc'[c] \in {"save", "returned", "raised"}
          /\ (pc[c] = "fallback" /\ pc'[c] = "save") =>
                /\ call'[c].artifact = "local"
                /\ OnlyWritten(fs, fs', call'[c].target_path)
                /\ RecordsBy(reports, c) = {} /\ reports' = reports
          /\ (pc[c] = "save" /\ pc'[c] # "save") =>
                /\ fs' = fs
                /\ call[c].artifact \in {"remote", "local"}
                /\ call[c].artifact = "remote" =>
                      \A i \in RecordsBy(reports', c) :
                         /\ reports'[i].format = call[c].fmt0
                         /\ reports'[i].file_path = call[c].target_path
          /\ (pc[c] = "fallback") \/ (fs' = fs)
                \/ (\E d \in Calls : pc[d] \in {"generate", "fallback"} /\ pc'[d] # pc[d])]_vars

\* Call 1 returned with an accepted remote artifact and a record of the
\* requested format; call 2, for which no remote path was accepted, wrote
\* its fallback file and saved its record.
C30_Witness ==
    /\ pc[1] = "returned" /\ pc[2] = "returned"
    /\ call[1].artifact = "remote" /\ call[2].artifact = "local"
    /\ \E i \in RecordsBy(reports, 1) : reports[i].format = call[1].fmt0
    /\ \E i \in RecordsBy(reports, 2) :
          /\ reports[i].file_path = call[2].target_path
          /\ reports[i].format # call[2].fmt0
    /\ Exists(fs, call[2].target_path)

(***************************************************************************)
(* Termination of create_report (specification SpecLive).                  *)
(***************************************************************************)
\* The remote calls in the logs of the candidates a step tried.
RECURSIVE RemoteCalls(_)
RemoteCalls(tried) ==
    IF tried = <<>> THEN 0
    ELSE Cardinality(CallsMade(Head(tried).log)) + RemoteCalls(Tail(tried))

\* The remote calls the analysis step of a request makes, for each way the
\* remote side may answer.
AnalysisCalls(request) ==
    { RemoteCalls(AnalyzeTrends(request,
          <<AnalyzeCalls[i1], AnalyzeCalls[i2], AnalyzeCalls[i3]>>).tried) :
      i1 \in 1..Len(AnalyzeCalls), i2 \in 1..Len(AnalyzeCalls),
      i3 \in 1..Len(AnalyzeCalls) }

\* The same for the generation step over the files as they are.
GenerationCalls(files) ==
    { RemoteCalls(GenerateReport(files,
          <<GenerateOutcomes[o1], GenerateOutcomes[o2], GenerateOutcomes[o3]>>).tried) :
      o1 \in 1..Len(GenerateOutcomes), o2 \in 1..Len(GenerateOutcomes),
      o3 \in 1..Len(GenerateOutcomes) }

Ended(c) == pc[c] \in {"returned", "raised"}

\* C31: with every remote call and persistence call returning or failing, a
\* create_report call that was started ends, returning or raising; its
\* analysis makes at most 3 candidates x 3 attempts = 9 remote calls and its
\* generation at most 9; it returns only with an artifact in hand, the
\* accepted remote one or the local fallback.
C31_TerminatesWithBoundedCalls ==
    /\ \A c \in Calls : (pc[c] # "idle") ~> Ended(c)
    /\ [](\A c \in Calls :
             /\ pc[c] = "analyze" =>
                   \A n \in AnalysisCalls(call[c].request) :
                      n <= Len(AnalyzeTools) * ToolAttempts
             /\ pc[c] = "generate" =>
                   \A n \in GenerationCalls(fs) :
                      n <= Len(GenerateTools) * ToolAttempts
             /\ pc[c] = "returned" =>
                   /\ call[c].artifact \in {"remote", "local"}
                   /\ call[c].saves = 1)

\* A call returned with its local fallback, after an analysis and a
\* generation that could each take all 9 remote calls.
C31_Witness ==
    /\ pc[1] = "returned"
    /\ call[1].artifact = "local"
    /\ 9 \in AnalysisCalls(call[1].request)
    /\ 9 \in GenerationCalls(NoFiles)

(***************************************************************************)
(* Progress updates and the rate limit of /analyze (specification          *)
(* SpecEntry).                                                             *)
(***************************************************************************)
ProgressPlaces == {"progress", "progress_report", "progress_done"}

\* C32: progress updates are advisory: a send_progress_updates call that
\* fails leaves cmd_analyze going on as one that succeeds does, so that
\* create_report is run, and a report that was created is published.
C32_ProgressIsAdvisory ==
    [][\A n \in Units :
          (units[n].at \in ProgressPlaces /\ units'[n] # units[n]) =>
             /\ units'[n].at = OnReturn(units[n].kind, units[n].at, units[n].ch)
             /\ ~units'[n].propagated]_vars

(***************************************************************************)
(* The normalizer on envelopes (specification SpecFn).                     *)
(***************************************************************************)
\* The value derived from a data attribute that is not None by the
\* conventions in their order: data itself if a mapping, else what
\* model_dump() or dict() returns, else the mapping of the attribute table.
FromData(data) ==
    CASE data.kind = "dict" -> DictValue(data.dict)
      [] data.kind \in {"model_dump", "dict_method"} /\ ~data.raises -> DictValue(data.dict)
      [] data.kind = "plain" -> DictValue(data.dict)
      [] data.kind = "str" -> StrValue(data.str)
      [] OTHER -> OtherValue

\* C33: for an envelope with a data attribute that is not None the result
\* is derived from data alone, by the conventions in their order down to
\* the attribute table; structured content is returned only when data is
\* None; the text blocks are joined and parsed as JSON, the joined text
\* returned when that fails, only when both are absent.
C33_DataThenStructuredThenText ==
    (probe.fn = "unwrap" /\ probe.value.kind = "envelope") =>
       LET data == probe.value.env.data
           structured == probe.value.env.structured
           combined == JoinTexts(probe.value.env.content)
       IN  /\ data.kind # "none" => probe.unwrapped = FromData(data)
           /\ (data.kind = "none" /\ structured # {}) =>
                 probe.unwrapped \in {DictValue(d) : d \in structured}
           /\ (data.kind = "none" /\ structured = {} /\ combined # NoStr) =>
                 probe.unwrapped = IF JsonLoads(combined).kind # "raise"
                                   THEN JsonLoads(combined) ELSE StrValue(combined)
           /\ probe.unwrapped \in {DictValue(d) : d \in structured} =>
                 (data.kind = "none" \/ probe.unwrapped = FromData(data))

(***************************************************************************)
(* Properties of the rate limiter (specification SpecLimiter).             *)
(***************************************************************************)
\* C34: under every interleaving of a user's /analyze commands at most one
\* analysis is started per user and cooldown: two create_report calls that
\* the handlers made for one user lie at least 600 seconds apart, also when
\* the second command came while the first analysis ran or after it failed.
C34_OneAnalysisPerCooldown ==
    \A i, j \in 1..Len(limiter.starts) :
       (i < j /\ limiter.starts[i].user = limiter.starts[j].user) =>
          limiter.starts[j].at >= limiter.starts[i].at + AnalyzeCooldown

(***************************************************************************)
(* The job table and the per-user index (specification SpecSched).         *)
(***************************************************************************)
\* The users under whom job id is listed, with the places of the listing.
ListedAt(index, id) ==
    {x \in Users \X (1..MaxJobs) : x[2] <= Len(index[x[1]]) /\ index[x[1]][x[2]] = id}

\* C35: after every sequence of add_job, remove_job, pause_all, resume_all
\* and shutdown calls the job table and the per-user index agree: every
\* identifier listed in jobs_by_user names a job registered in the timer
\* engine, and every registered job is listed once, under its user.
C35_IndexMatchesJobTable ==
    /\ \A u \in Users : \A i \in 1..Len(sched.jobs_by_user[u]) :
          Registered(sched.jobs, sched.jobs_by_user[u][i])
    /\ \A id \in DOMAIN sched.jobs :
          /\ Cardinality(ListedAt(sched.jobs_by_user, id)) = 1
          /\ \A x \in ListedAt(sched.jobs_by_user, id) : x[1] = sched.jobs[id].user_id
====
